---------------------------- MODULE Spec2Model ----------------------------
(***************************************************************************)
(* Verification model of the disposable-email-domains client:              *)
(*   - DnsResolver.executeWithConcurrencyControl (the concurrency gate),   *)
(*   - SmtpValidator.validateEmail / testSmtpConnection (SMTP handshake),  *)
(*   - DnsResolver's expiring cache (get / set / periodic sweep),          *)
(*   - DisposableEmailChecker.checkEmail / performEmailCheck (pipeline),   *)
(*   - DnsResolver.validateDomain / resolveMxWithRetry (retry, backoff),   *)
(*   - DisposableEmailChecker.checkEmailsBatch and buildIndex,             *)
(*   - DnsResolver.validateMxRecordsBatch (concurrent MX queries),         *)
(*   - DisposableEmailChecker.forceUpdate and ensureInitialized.           *)
(* Each subsystem has its own specification (SpecGate, SpecSmtp,           *)
(* SpecSmtpTimed, SpecCache, SpecChecker, SpecDns, SpecBatch, SpecIndex,   *)
(* SpecMxBatch, SpecUpdate, SpecInit); the variables of the other          *)
(* subsystems stay at their initial values.                                *)
(***************************************************************************)
EXTENDS Integers, Sequences, FiniteSets, TLC

VARIABLES
    \* ---- DnsResolver concurrency gate
    concurrency,      \* config.concurrency
    activeRequests,   \* DnsResolver.activeRequests
    requestQueue,     \* DnsResolver.requestQueue (operation ids, FIFO)
    immediateQueue,   \* callbacks registered with setImmediate, FIFO
    opState,          \* position of every operation
    opResult,         \* how each operation settled
    submitted,        \* number of calls of executeWithConcurrencyControl so far
    \* ---- SmtpValidator.validateEmail / testSmtpConnection
    email,            \* argument: [localPart, domain] as split at "@"
    mxRecords,        \* argument: <<>> (undefined) or <<list of MxRecord>>
    portValid,        \* whether config.port is one socket.connect accepts
    servers,          \* validateEmail: const servers
    idx,              \* validateEmail: position of the for loop in servers
    vpc,              \* validateEmail: "idle", "attempt" or "done"
    result,           \* validateEmail: const result
    step,             \* testSmtpConnection: let step
    responseCode,     \* testSmtpConnection: let responseCode
    isDeliverable,    \* testSmtpConnection: let isDeliverable
    socketOpen,       \* the socket is neither closed by the peer nor destroyed
    listening,        \* the socket's listeners are attached
    timerArmed,       \* the setTimeout of the attempt is pending
    connResult,       \* the promise returned by testSmtpConnection
    sent,             \* commands written to the socket in this attempt
    replies,          \* reply codes received in this attempt
    attempted,        \* servers testSmtpConnection was called with, in order
    outcomes,         \* how each attempt ended, in order
    lastEvent,        \* the socket or timer event handled last in this attempt
    smtpCache,        \* SmtpValidator.smtpCache
    repeats,          \* number of validateEmail calls after the first
    firstResult,      \* what the first validateEmail call returned
    \* ---- DnsResolver cache
    dnsCache,         \* DnsResolver.dnsCache: entries in Map insertion order
    now,              \* Date.now()
    cacheSize,        \* config.cacheSize
    cacheTtl,         \* config.cacheTtl
    lastGet,          \* what the getCachedResult call just made found and returned
    lastCheck,        \* how the MX resolution of the checkMxRecord call that
                      \* just cached its answer ended
    \* ---- DisposableEmailChecker.checkEmail / performEmailCheck
    allowlistSet,         \* DisposableEmailChecker.allowlistSet
    blacklistSet,         \* DisposableEmailChecker.blacklistSet
    disposableDomainsSet, \* DisposableEmailChecker.disposableDomainsSet
    config,               \* DisposableEmailChecker.config (the flags read here)
    resultCache,          \* cacheManager: normalized email -> cached result
    cpc,                  \* position of the checkEmail call in flight
    cur,                  \* checkEmail: normalizedEmail
    cres,                 \* performEmailCheck: const result
    dnsResult,            \* performEmailCheck: let dnsResult
    smtpArg,              \* the mxRecords argument handed to the SMTP stage
    stagesRun,            \* the stages run by the call in flight (or just ended)
    returned,             \* the result checkEmail returned last
    checks,               \* number of checkEmail calls so far
    added,                \* the domains addToAllowlist was called with
    callerInputs,         \* the emails this checker is asked about
    rawForm,              \* checkEmail: how the email argument is written
                          \* (lower case, or upper case and padded)
    failures,             \* what failed during the checkEmail call in flight
    atCall,               \* when the checkEmail call in flight began: whether
                          \* its domain was on the allowlist, whether
                          \* addToAllowlist had returned for it, and whether
                          \* the result cache held an entry for its email
    \* ---- DnsResolver.validateDomain / resolveMxWithRetry
    dnsConfig,            \* DnsResolver.config (retries and the record checks)
    dpc,                  \* position of the validateDomain call
    attempt,              \* resolveMxWithRetry: let attempt
    lastError,            \* resolveMxWithRetry: let lastError
    vdResult,             \* validateDomain: const result
    attempts,             \* how each MX resolution attempt ended, in order
    delays,               \* the delays resolveMxWithRetry waited, in order
    vdReturned,           \* what validateDomain returned
    dnsRepeats,           \* number of validateDomain calls after the first
    vdFirst,              \* what the first validateDomain call returned
    \* ---- DisposableEmailChecker.checkEmailsBatch
    emails,               \* checkEmailsBatch: the emails argument
    bpc,                  \* position of the checkEmailsBatch call
    uncachedEmails,       \* checkEmailsBatch: const uncachedEmails
    resultMap,            \* checkEmailsBatch: const resultMap
    callDone,             \* the results of the checkEmail calls of the
                          \* chunks that have resolved
    merged,               \* the chunks whose then-handler has run
    overtaken,            \* whether a checkEmail call resolved before one
                          \* started earlier
    results,              \* what checkEmailsBatch returned
    \* ---- DisposableEmailChecker.buildIndex and the domain index
    indexingStrategy,     \* config.indexingStrategy
    ipc,                  \* whether buildIndex has run
    domainTrie,           \* this.domainTrie
    bloomFilter,          \* this.bloomFilter
    hashes,               \* the bit positions the filter's hash functions
                          \* give each domain
    probe,                \* the last membership test or lookup and its answer
    \* ---- DnsResolver.validateMxRecordsBatch
    uncachedDomains,      \* validateMxRecordsBatch: const uncachedDomains
    mpc,                  \* position of the validateMxRecordsBatch call
    chunkNo,              \* the chunk whose promises are awaited
    mxCalls,              \* position and attempt number of the
                          \* resolveMxWithRetry call of every domain
    \* ---- DisposableEmailChecker.forceUpdate
    domainChecker,        \* this.domainChecker: the sets and the index the
                          \* DomainChecker object was constructed with
    upc,                  \* position of the forceUpdate call
    updates,              \* number of forceUpdate calls so far
    lookup,               \* the lookup made last: steps 3 and 4 of
                          \* performEmailCheck are answered and step 5 is
                          \* awaited, or step 5 is answered too
    \* ---- DisposableEmailChecker.ensureInitialized
    initialized,            \* this.initialized
    initializationPromise,  \* this.initializationPromise
    initStarts,             \* number of initialize() calls so far
    calls                   \* kind and position of every public call

gateVars == <<concurrency, activeRequests, requestQueue, immediateQueue,
              opState, opResult, submitted>>

smtpVars == <<email, mxRecords, portValid, servers, idx, vpc, result, step,
              responseCode, isDeliverable, socketOpen, listening, timerArmed,
              connResult, sent, replies, attempted, outcomes, lastEvent,
              smtpCache, repeats, firstResult>>

\* The cache of the validator and the record of its earlier call.
smtpRepeat == <<smtpCache, repeats, firstResult>>

cacheVars == <<dnsCache, now, cacheSize, cacheTtl, lastGet, lastCheck>>

\* The lists and the configuration of the checker.
loaded == <<allowlistSet, added, blacklistSet, disposableDomainsSet, config,
            callerInputs>>

checkerVars == <<loaded, resultCache, cpc, cur, cres, dnsResult, smtpArg,
                 stagesRun, returned, checks, failures, atCall, rawForm>>

dnsVars == <<dnsConfig, dpc, attempt, lastError, vdResult, attempts, delays,
             vdReturned, dnsRepeats, vdFirst>>

\* The record of the resolver's earlier validateDomain call.
dnsRepeat == <<dnsRepeats, vdFirst>>

batchVars == <<emails, bpc, uncachedEmails, resultMap, callDone, merged,
               overtaken, results>>

indexVars == <<indexingStrategy, ipc, domainTrie, bloomFilter, hashes, probe>>

mxBatchVars == <<uncachedDomains, mpc, chunkNo, mxCalls>>

updateVars == <<domainChecker, upc, updates, lookup>>

initVars == <<initialized, initializationPromise, initStarts, calls>>

\* The checker's life cycle: its updates and its initialization.
lifeVars == <<updateVars, initVars>>

\* The checker but for resultCache, which the calls of a batch fill.
checkerRest == <<loaded, cpc, cur, cres, dnsResult, smtpArg, stagesRun,
                 returned, checks, failures, atCall, rawForm>>

\* The gate but for activeRequests, which resolveMxWithRetry moves.
gateRest == <<concurrency, requestQueue, immediateQueue, opState, opResult,
              submitted>>

\* The variables each subsystem leaves alone.
notGate == <<smtpVars, cacheVars, checkerVars, dnsVars, batchVars, indexVars,
      mxBatchVars, lifeVars>>
notSmtp == <<gateVars, cacheVars, checkerVars, dnsVars, batchVars, indexVars,
      mxBatchVars, lifeVars>>
notCache == <<gateVars, smtpVars, checkerVars, dnsVars, batchVars, indexVars,
      mxBatchVars, lifeVars>>
notChecker == <<gateVars, smtpVars, cacheVars, dnsVars, batchVars, indexVars,
      mxBatchVars, lifeVars>>
notDns == <<gateRest, smtpVars, cacheVars, checkerVars, batchVars, indexVars,
      mxBatchVars, lifeVars>>
notBatch == <<gateVars, smtpVars, cacheVars, dnsVars, checkerRest, indexVars,
      mxBatchVars, lifeVars>>
notIndex == <<gateVars, smtpVars, cacheVars, dnsVars, checkerVars, batchVars,
      mxBatchVars, lifeVars>>

notMxBatch == <<gateRest, smtpVars, cacheVars, checkerVars, dnsVars, batchVars,
      indexVars, lifeVars>>
(***************************************************************************)
(* Bounds of the model.                                                    *)
(***************************************************************************)
MaxOps == 4
MaxConcurrency == 2
MaxMx == 3
MaxTime == 3
MaxTtl == 2
MaxCacheSize == 2
MaxChecks == 2
MaxRetries == 5
MaxBatch == 3
BloomBits == 3
MaxDomains == 3

\* Optional values (null / undefined against a value).
Null == <<>>
Some(x) == <<x>>

(***************************************************************************)
(*                DnsResolver.executeWithConcurrencyControl                *)
(***************************************************************************)
Ops == 1..MaxOps

\* An operation is executing from the call of operation() until its promise
\* settles, whichever path called it.
Executing(o) == opState[o] \in {"direct", "viaQueue"}

\* operation() has been called for o.
Started(o) == opState[o] \in {"direct", "directSettled", "viaQueue", "done"}

InitGate ==
    /\ concurrency \in 1..MaxConcurrency
    /\ activeRequests = 0
    /\ requestQueue = <<>>
    /\ immediateQueue = <<>>
    /\ opState = [o \in Ops |-> "unsubmitted"]
    /\ opResult = [o \in Ops |-> "none"]
    /\ submitted = 0

\* executeWithConcurrencyControl(operation): the synchronous part of the call.
\* At capacity the wrapper is pushed on requestQueue; otherwise the slot is
\* taken and operation() is called at once.
Submit ==
    /\ submitted < MaxOps
    /\ LET o == submitted + 1 IN
        /\ submitted' = o
        /\ IF activeRequests >= concurrency
              THEN /\ requestQueue' = Append(requestQueue, o)
                   /\ opState' = [opState EXCEPT ![o] = "queued"]
                   /\ UNCHANGED activeRequests
              ELSE /\ activeRequests' = activeRequests + 1
                   /\ opState' = [opState EXCEPT ![o] = "direct"]
                   /\ UNCHANGED requestQueue
    /\ UNCHANGED <<concurrency, immediateQueue, opResult>>
    /\ UNCHANGED notGate

\* The promise of a directly admitted operation settles (resolves or rejects).
SettleDirect(o, r) ==
    /\ opState[o] = "direct"
    /\ opState' = [opState EXCEPT ![o] = "directSettled"]
    /\ opResult' = [opResult EXCEPT ![o] = r]
    /\ UNCHANGED <<concurrency, activeRequests, requestQueue, immediateQueue,
                   submitted>>
    /\ UNCHANGED notGate

\* The finally block of a directly admitted operation: the slot is released
\* and the head of requestQueue, if any, is handed to setImmediate.
FinallyDirect(o) ==
    /\ opState[o] = "directSettled"
    /\ activeRequests' = activeRequests - 1
    /\ IF Len(requestQueue) > 0
          THEN LET nextRequest == Head(requestQueue) IN
               /\ requestQueue' = Tail(requestQueue)
               /\ immediateQueue' = Append(immediateQueue, nextRequest)
               /\ opState' = [opState EXCEPT ![o] = "done",
                                             ![nextRequest] = "scheduled"]
          ELSE /\ opState' = [opState EXCEPT ![o] = "done"]
               /\ UNCHANGED <<requestQueue, immediateQueue>>
    /\ UNCHANGED <<concurrency, opResult, submitted>>
    /\ UNCHANGED notGate

\* The setImmediate callback runs nextRequest(): the queued wrapper calls
\* operation() and touches neither activeRequests nor requestQueue.
RunImmediate ==
    /\ Len(immediateQueue) > 0
    /\ LET o == Head(immediateQueue) IN
        /\ immediateQueue' = Tail(immediateQueue)
        /\ opState' = [opState EXCEPT ![o] = "viaQueue"]
    /\ UNCHANGED <<concurrency, activeRequests, requestQueue, opResult, submitted>>
    /\ UNCHANGED notGate

\* The operation of a queued wrapper settles: the wrapper resolves or rejects
\* the caller's promise and returns.
SettleQueued(o, r) ==
    /\ opState[o] = "viaQueue"
    /\ opState' = [opState EXCEPT ![o] = "done"]
    /\ opResult' = [opResult EXCEPT ![o] = r]
    /\ UNCHANGED <<concurrency, activeRequests, requestQueue, immediateQueue,
                   submitted>>
    /\ UNCHANGED notGate

Outcomes == {"resolved", "rejected"}

NextGate ==
    \/ Submit
    \/ \E o \in Ops, r \in Outcomes : SettleDirect(o, r)
    \/ \E o \in Ops : FinallyDirect(o)
    \/ RunImmediate
    \/ \E o \in Ops, r \in Outcomes : SettleQueued(o, r)


(***************************************************************************)
(*          SmtpValidator.validateEmail and testSmtpConnection             *)
(***************************************************************************)
\* Reply codes a server may send (the first three characters of a reply).
Codes == {220, 221, 250, 550}

\* Exchanges with their priorities (lower number = preferred); two of them
\* share a priority.
Exchanges == {"mx1", "mx2", "mx3"}
PriorityOf(x) == IF x = "mx1" THEN 10 ELSE 20
MxRecord(x) == [exchange |-> x, priority |-> PriorityOf(x)]

RECURSIVE SeqsNoRepeat(_, _)
\* The sequences of at most n distinct elements of S.
SeqsNoRepeat(S, n) ==
    IF n = 0 THEN {<<>>}
    ELSE LET shorter == SeqsNoRepeat(S, n - 1)
             longest == {t \in shorter : Len(t) = n - 1}
             fresh == {p \in longest \X S : \A i \in 1..Len(p[1]) : p[1][i] # p[2]}
         IN  shorter \cup {Append(p[1], p[2]) : p \in fresh}

\* The lists a caller may pass as mxRecords, in any order.
MxLists == {[i \in 1..Len(q) |-> MxRecord(q[i])] : q \in SeqsNoRepeat(Exchanges, MaxMx)}

\* email.split("@") of the address under test.
Emails == {[localPart |-> "user", domain |-> "example.com"],
           [localPart |-> "user", domain |-> ""]}

\* A message with the reply it quotes, and a fixed message.
Quoting(text, response) == [text |-> text, response |-> Some(response)]
Plain(text) == [text |-> text, response |-> Null]

\* const result = { email, domain: "", isValid: false, ... }
EmptySmtpResult ==
    [domain |-> "", isValid |-> FALSE, isMailboxValid |-> FALSE,
     mxRecord |-> Null, responseCode |-> Null, errors |-> <<>>, warnings |-> <<>>]

\* The promise returned by testSmtpConnection: pending, resolved with a
\* SmtpConnectionResult, or rejected (the executor threw).
Pending ==
    [settled |-> "pending", isValid |-> FALSE, isDeliverable |-> FALSE,
     mxRecord |-> Null, error |-> Null, responseCode |-> Null]

Rejected(message) ==
    [settled |-> "rejected", isValid |-> FALSE, isDeliverable |-> FALSE,
     mxRecord |-> Null, error |-> Some(Plain(message)), responseCode |-> Null]

\* Mutant of SuccessResult: the tested server is not reported.
SuccessResult_NoServer(server, deliverable, code) ==
    [settled |-> "resolved", isValid |-> TRUE, isDeliverable |-> deliverable,
     mxRecord |-> Null, error |-> Null, responseCode |-> Some(code)]

\* resolve({ isValid: true, isDeliverable, mxRecord: server, responseCode, ... })
SuccessResult(server, deliverable, code) ==
    [settled |-> "resolved", isValid |-> TRUE, isDeliverable |-> deliverable,
     mxRecord |-> Some(server), error |-> Null, responseCode |-> Some(code)]

\* Mutant of ProtocolFailure: the thrown message is lost.
ProtocolFailure_NoMessage(message, code) ==
    [settled |-> "resolved", isValid |-> FALSE, isDeliverable |-> FALSE,
     mxRecord |-> Null, error |-> Null, responseCode |-> Some(code)]

\* The catch of the data handler: resolve({ isValid: false, error: message,
\* responseCode, ... }).
ProtocolFailure(message, code) ==
    [settled |-> "resolved", isValid |-> FALSE, isDeliverable |-> FALSE,
     mxRecord |-> Null, error |-> Some(message), responseCode |-> Some(code)]

\* Mutant of ConnectionFailure: the cause is not reported.
ConnectionFailure_NoCause(message) ==
    [settled |-> "resolved", isValid |-> FALSE, isDeliverable |-> FALSE,
     mxRecord |-> Null, error |-> Null, responseCode |-> Null]

\* The timeout, error and close handlers: resolve({ isValid: false, error }).
ConnectionFailure(message) ==
    [settled |-> "resolved", isValid |-> FALSE, isDeliverable |-> FALSE,
     mxRecord |-> Null, error |-> Some(Plain(message)), responseCode |-> Null]

\* const servers = mxRecords?.map((mx) => mx.exchange) || [domain]
\* (an empty array is truthy, so an empty list stays empty).
ServersOf(mx, domain) ==
    IF mx = Null THEN <<domain>>
    ELSE [i \in 1..Len(mx[1]) |-> mx[1][i].exchange]

\* The branch taken when validationResult.isValid.
MergeSuccess(r, v) ==
    [r EXCEPT !.isValid = TRUE,
              !.isMailboxValid = v.isValid,
              !.mxRecord = v.mxRecord,
              !.responseCode = v.responseCode]

\* Mutant of MergeFailure: a failed attempt leaves no warning.
MergeFailure_Silent(r, v) == r

\* The else branch: result.warnings.push(validationResult.error || "Unable ...").
MergeFailure(r, v) ==
    [r EXCEPT !.warnings =
        Append(@, IF v.error # Null THEN v.error[1]
                  ELSE Plain("Unable to verify mailbox via SMTP"))]

\* The catch of the loop body: result.errors.push(`SMTP validation failed: ...`).
MergeThrown(r, v) ==
    [r EXCEPT !.errors = Append(@, Plain("SMTP validation failed"))]

InitSmtp ==
    /\ email \in Emails
    /\ mxRecords \in {Null} \cup {Some(l) : l \in MxLists}
    /\ portValid \in BOOLEAN
    /\ servers = <<>>
    /\ idx = 0
    /\ vpc = "idle"
    /\ result = EmptySmtpResult
    /\ step = 0
    /\ responseCode = 0
    /\ isDeliverable = FALSE
    /\ socketOpen = FALSE
    /\ listening = FALSE
    /\ timerArmed = FALSE
    /\ connResult = Pending
    /\ sent = <<>>
    /\ replies = <<>>
    /\ attempted = <<>>
    /\ outcomes = <<>>
    /\ lastEvent = "none"
    /\ smtpCache = [e \in Emails |-> Null]
    /\ repeats = 0
    /\ firstResult = Null

\* The for loop of validateEmail from position i with result r, after the
\* servers in tried: either the
\* loop is over and validateEmail returns, or testSmtpConnection(srv[i]) is
\* called: a socket is created, the timer armed and socket.connect called,
\* which throws inside the executor when the port is not valid.
LoopWith(srv, i, r, tried) ==
    /\ result' = r
    /\ IF i > Len(srv)
          THEN /\ vpc' = "done"
               /\ attempted' = tried
               /\ UNCHANGED <<idx, step, responseCode, isDeliverable, socketOpen,
                              listening, timerArmed, connResult, sent, replies,
                              lastEvent>>
          ELSE /\ vpc' = "attempt"
               /\ idx' = i
               /\ step' = 0
               /\ responseCode' = 0
               /\ isDeliverable' = FALSE
               /\ socketOpen' = portValid
               /\ listening' = portValid
               /\ timerArmed' = TRUE
               /\ connResult' = IF portValid THEN Pending
                                ELSE Rejected("Port should be >= 0 and < 65536")
               /\ sent' = <<>>
               /\ replies' = <<>>
               /\ lastEvent' = "none"
               /\ attempted' = Append(tried, srv[i])

\* The loop within one call: the servers tried so far are those of the call.
LoopFrom(srv, i, r) == LoopWith(srv, i, r, attempted)

\* validateEmail(email, mxRecords) up to its first await.
ValidateEmail ==
    /\ vpc = "idle"
    /\ IF email.localPart = "" \/ email.domain = ""
          THEN /\ result' = [result EXCEPT !.errors = Append(@, Plain("Invalid email format"))]
               /\ vpc' = "done"
               /\ UNCHANGED <<servers, idx, step, responseCode, isDeliverable,
                              socketOpen, listening, timerArmed, connResult, sent,
                              replies, attempted, lastEvent>>
          ELSE LET srv == ServersOf(mxRecords, email.domain) IN
               /\ servers' = srv
               /\ LoopFrom(srv, 1, [result EXCEPT !.domain = email.domain])
    /\ UNCHANGED <<email, mxRecords, portValid, outcomes>>
    /\ UNCHANGED smtpRepeat
    /\ UNCHANGED notSmtp

\* A second validateEmail(email, mxRecords) with the arguments of the first,
\* once the first has returned, up to its first await: the call builds a new
\* result and goes to the servers; smtpCache is neither read nor written.
\* (Repeated for calls with at most one server.)
ValidateEmailAgain ==
    /\ vpc = "done"
    /\ repeats = 0
    /\ Len(ServersOf(mxRecords, email.domain)) <= 1
    /\ repeats' = 1
    /\ firstResult' = Some(result)
    /\ outcomes' = <<>>
    /\ IF email.localPart = "" \/ email.domain = ""
          THEN /\ result' = [EmptySmtpResult EXCEPT
                                !.errors = Append(@, Plain("Invalid email format"))]
               /\ vpc' = "done"
               /\ attempted' = <<>>
               /\ UNCHANGED <<servers, idx, step, responseCode, isDeliverable,
                              socketOpen, listening, timerArmed, connResult, sent,
                              replies, lastEvent>>
          ELSE LET srv == ServersOf(mxRecords, email.domain) IN
               /\ servers' = srv
               /\ LoopWith(srv, 1, [EmptySmtpResult EXCEPT !.domain = email.domain],
                           <<>>)
    /\ UNCHANGED <<email, mxRecords, portValid, smtpCache>>
    /\ UNCHANGED notSmtp

\* Mutant of Resolve: the promise is resolved without cleanup().
Resolve_NoCleanup(v) ==
    /\ connResult' = v
    /\ timerArmed' = FALSE
    /\ outcomes' = Append(outcomes, IF v.isValid THEN "SUCCESS" ELSE "FAIL")
    /\ UNCHANGED <<listening, socketOpen>>

\* cleanup() followed by resolve(v): listeners removed, socket destroyed; the
\* timer is cleared (or has just fired).
Resolve(v) ==
    /\ connResult' = v
    /\ listening' = FALSE
    /\ socketOpen' = FALSE
    /\ timerArmed' = FALSE
    /\ outcomes' = Append(outcomes, IF v.isValid THEN "SUCCESS" ELSE "FAIL")

\* socket.on("data"): one reply with the given code arrives.
OnData(code) ==
    /\ vpc = "attempt" /\ listening /\ socketOpen
    /\ responseCode' = code
    /\ replies' = Append(replies, code)
    /\ lastEvent' = "data"
    /\ CASE step = 0 ->
              IF code = 220
                 THEN /\ sent' = Append(sent, "HELO")
                      /\ step' = step + 1
                      /\ UNCHANGED <<isDeliverable, connResult, listening,
                                     socketOpen, timerArmed, outcomes>>
                 ELSE /\ Resolve(ProtocolFailure(Quoting("Unexpected greeting", code), code))
                      /\ UNCHANGED <<sent, step, isDeliverable>>
         [] step = 1 ->
              IF code = 250
                 THEN /\ sent' = Append(sent, "MAIL FROM")
                      /\ step' = step + 1
                      /\ UNCHANGED <<isDeliverable, connResult, listening,
                                     socketOpen, timerArmed, outcomes>>
                 ELSE /\ Resolve(ProtocolFailure(Quoting("HELO failed", code), code))
                      /\ UNCHANGED <<sent, step, isDeliverable>>
         [] step = 2 ->
              IF code = 250
                 THEN /\ sent' = Append(sent, "RCPT TO")
                      /\ step' = step + 1
                      /\ UNCHANGED <<isDeliverable, connResult, listening,
                                     socketOpen, timerArmed, outcomes>>
                 ELSE /\ Resolve(ProtocolFailure(Quoting("MAIL FROM failed", code), code))
                      /\ UNCHANGED <<sent, step, isDeliverable>>
         [] step = 3 ->
              /\ isDeliverable' = (code = 250)
              /\ sent' = Append(sent, "QUIT")
              /\ step' = step + 1
              /\ UNCHANGED <<connResult, listening, socketOpen, timerArmed, outcomes>>
         [] OTHER ->
              /\ Resolve(SuccessResult(servers[idx], isDeliverable, code))
              /\ UNCHANGED <<sent, step, isDeliverable>>
    /\ UNCHANGED <<email, mxRecords, portValid, servers, idx, vpc, result, attempted>>
    /\ UNCHANGED smtpRepeat
    /\ UNCHANGED notSmtp

\* socket.on("error").
OnError ==
    /\ vpc = "attempt" /\ listening /\ socketOpen
    /\ lastEvent' = "error"
    /\ Resolve(ConnectionFailure("Connection failed"))
    /\ UNCHANGED <<email, mxRecords, portValid, servers, idx, vpc, result, step,
                   responseCode, isDeliverable, sent, replies, attempted>>
    /\ UNCHANGED smtpRepeat
    /\ UNCHANGED notSmtp

\* Mutant of OnClose: a close after QUIT clears the timer and resolves
\* nothing.
OnClose_ClearsTimer ==
    /\ vpc = "attempt" /\ listening /\ socketOpen
    /\ lastEvent' = "close"
    /\ IF step < 4
          THEN Resolve(ConnectionFailure("Connection closed unexpectedly"))
          ELSE /\ socketOpen' = FALSE
               /\ timerArmed' = FALSE
               /\ UNCHANGED <<connResult, listening, outcomes>>
    /\ UNCHANGED <<email, mxRecords, portValid, servers, idx, vpc, result, step,
                   responseCode, isDeliverable, sent, replies, attempted>>
    /\ UNCHANGED smtpRepeat
    /\ UNCHANGED notSmtp

\* socket.on("close"): the peer closed the connection. Before QUIT was sent the
\* attempt fails; afterwards the handler does nothing.
OnClose ==
    /\ vpc = "attempt" /\ listening /\ socketOpen
    /\ lastEvent' = "close"
    /\ IF step < 4
          THEN Resolve(ConnectionFailure("Connection closed unexpectedly"))
          ELSE /\ socketOpen' = FALSE
               /\ UNCHANGED <<connResult, listening, timerArmed, outcomes>>
    /\ UNCHANGED <<email, mxRecords, portValid, servers, idx, vpc, result, step,
                   responseCode, isDeliverable, sent, replies, attempted>>
    /\ UNCHANGED smtpRepeat
    /\ UNCHANGED notSmtp

\* The setTimeout callback of the attempt. After the executor threw the
\* promise is already rejected and resolve() changes nothing.
OnTimeout ==
    /\ vpc = "attempt" /\ timerArmed
    /\ lastEvent' = "timeout"
    /\ IF connResult.settled = "pending"
          THEN Resolve(ConnectionFailure("Connection timeout"))
          ELSE /\ timerArmed' = FALSE
               /\ UNCHANGED <<connResult, listening, socketOpen, outcomes>>
    /\ UNCHANGED <<email, mxRecords, portValid, servers, idx, vpc, result, step,
                   responseCode, isDeliverable, sent, replies, attempted>>
    /\ UNCHANGED smtpRepeat
    /\ UNCHANGED notSmtp

\* validateEmail resumes after await testSmtpConnection(...): success ends the
\* loop (break), a failed attempt adds a warning, a rejection an error, and
\* the loop goes on with the next server.
Resume ==
    /\ vpc = "attempt"
    /\ connResult.settled # "pending"
    /\ IF connResult.settled = "rejected"
          THEN /\ outcomes' = Append(outcomes, "THROWN")
               /\ LoopFrom(servers, idx + 1, MergeThrown(result, connResult))
          ELSE IF connResult.isValid
          THEN /\ result' = MergeSuccess(result, connResult)
               /\ vpc' = "done"
               /\ UNCHANGED <<idx, step, responseCode, isDeliverable, socketOpen,
                              listening, timerArmed, connResult, sent, replies,
                              attempted, outcomes, lastEvent>>
          ELSE /\ LoopFrom(servers, idx + 1, MergeFailure(result, connResult))
               /\ UNCHANGED outcomes
    /\ UNCHANGED <<email, mxRecords, portValid, servers>>
    /\ UNCHANGED smtpRepeat
    /\ UNCHANGED notSmtp

NextSmtp ==
    \/ ValidateEmail
    \/ ValidateEmailAgain
    \/ \E code \in Codes : OnData(code)
    \/ OnError
    \/ OnClose
    \/ OnTimeout
    \/ Resume

\* The state of the SMTP variables in the specifications of other subsystems.
ParkedSmtp ==
    /\ email = [localPart |-> "user", domain |-> "example.com"]
    /\ mxRecords = Null
    /\ portValid = TRUE
    /\ servers = <<>>
    /\ idx = 0
    /\ vpc = "idle"
    /\ result = EmptySmtpResult
    /\ step = 0
    /\ responseCode = 0
    /\ isDeliverable = FALSE
    /\ socketOpen = FALSE
    /\ listening = FALSE
    /\ timerArmed = FALSE
    /\ connResult = Pending
    /\ sent = <<>>
    /\ replies = <<>>
    /\ attempted = <<>>
    /\ outcomes = <<>>
    /\ lastEvent = "none"
    /\ smtpCache = <<>>
    /\ repeats = 0
    /\ firstResult = Null

\* The queues of the gate at rest.
ParkedQueue ==
    /\ requestQueue = <<>>
    /\ immediateQueue = <<>>
    /\ opState = [o \in Ops |-> "unsubmitted"]
    /\ opResult = [o \in Ops |-> "none"]
    /\ submitted = 0

ParkedGate ==
    /\ concurrency = 1
    /\ activeRequests = 0
    /\ ParkedQueue

(***************************************************************************)
(*        DnsResolver cache: getCachedResult, setCachedResult, sweep       *)
(***************************************************************************)
CacheKeys == {"mx:a.com", "simple-mx:a.com", "mx:b.com"}
CacheValues == {"v1", "v2"}

\* The ttl argument of setCachedResult: omitted, or a number (0 included).
TtlArgs == {Null} \cup {Some(t) : t \in 0..MaxTtl}

\* No getCachedResult call yet.
NoGet == [had |-> FALSE, age |-> 0, ttl |-> 0, stored |-> Null, returned |-> Null]

\* this.dnsCache.get(key): the position of key in the map, 0 when absent.
PositionOf(cache, key) ==
    IF \E i \in 1..Len(cache) : cache[i].key = key
       THEN CHOOSE i \in 1..Len(cache) : cache[i].key = key
       ELSE 0

\* this.dnsCache.delete(key).
Without(cache, key) == SelectSeq(cache, LAMBDA e : e.key # key)

\* this.dnsCache.set(key, entry): an existing key keeps its position in the
\* insertion order, a new key goes last.
MapSet(cache, entry) ==
    LET i == PositionOf(cache, entry.key) IN
    IF i = 0 THEN Append(cache, entry) ELSE [cache EXCEPT ![i] = entry]

\* getCachedResult: Date.now() - cached.timestamp < cached.ttl.
FreshOnRead(e, t) == t - e.timestamp < e.ttl

\* cleanupCache: now - cached.timestamp > cached.ttl.
StaleOnSweep(e, t) == t - e.timestamp > e.ttl

\* ttl || this.config.cacheTtl
EffectiveTtl(ttl, default) == IF ttl = Null \/ ttl = Some(0) THEN default ELSE ttl[1]

\* The map after the eviction step of setCachedResult: at capacity the first
\* key in insertion order is deleted.
AfterEviction(cache, capacity) ==
    IF Len(cache) >= capacity /\ Len(cache) > 0
       THEN Without(cache, cache[1].key)
       ELSE cache

\* The values of config.cacheTtl whose half is a whole number of ticks.
EvenTtls == {t \in 1..MaxTtl : t % 2 = 0}

InitCache ==
    /\ dnsCache = <<>>
    /\ now = 0
    /\ cacheSize \in 1..MaxCacheSize
    /\ cacheTtl \in EvenTtls
    /\ lastGet = NoGet
    /\ lastCheck = Null

\* Time passes.
Tick ==
    /\ now < MaxTime
    /\ now' = now + 1
    /\ UNCHANGED <<dnsCache, cacheSize, cacheTtl>>
    /\ lastGet' = NoGet
    /\ lastCheck' = Null
    /\ UNCHANGED notCache

\* getCachedResult(key).
GetCachedResult(key) ==
    /\ LET i == PositionOf(dnsCache, key) IN
       IF i = 0
          THEN /\ lastGet' = NoGet
               /\ UNCHANGED dnsCache
          ELSE LET cached == dnsCache[i]
                   hit == FreshOnRead(cached, now)
               IN /\ lastGet' = [had |-> TRUE,
                                 age |-> now - cached.timestamp,
                                 ttl |-> cached.ttl,
                                 stored |-> Some(cached.result),
                                 returned |-> IF hit THEN Some(cached.result) ELSE Null]
                  /\ dnsCache' = IF hit THEN dnsCache ELSE Without(dnsCache, key)
    /\ lastCheck' = Null
    /\ UNCHANGED <<now, cacheSize, cacheTtl>>
    /\ UNCHANGED notCache

\* setCachedResult(key, result, ttl?).
SetCachedResult(key, value, ttl) ==
    /\ dnsCache' = MapSet(AfterEviction(dnsCache, cacheSize),
                          [key |-> key, result |-> value, timestamp |-> now,
                           ttl |-> EffectiveTtl(ttl, cacheTtl)])
    /\ UNCHANGED <<now, cacheSize, cacheTtl>>
    /\ lastGet' = NoGet
    /\ lastCheck' = Null
    /\ UNCHANGED notCache

\* How the MX resolution of checkMxRecord may end: with records, with an
\* empty list, or with a throw after the last attempt.
MxOutcomes == {"records", "empty", "throws"}

\* const hasMx = mxRecords && mxRecords.length > 0 (false in the catch), as
\* the cached value.
HasMxValue(outcome) == IF outcome = "records" THEN "true" ELSE "false"

\* The ttl argument checkMxRecord hands to setCachedResult: none after the
\* try block, this.config.cacheTtl / 2 in the catch.
TtlOfCheck(outcome, default) ==
    IF outcome = "throws" THEN Some(default \div 2) ELSE Null

\* checkMxRecord(domain) after await this.resolveMxWithRetry(domain), with
\* caching enabled: the answer is cached and returned.
CheckMxRecord(outcome) ==
    /\ dnsCache' = MapSet(AfterEviction(dnsCache, cacheSize),
                          [key |-> "simple-mx:a.com",
                           result |-> HasMxValue(outcome),
                           timestamp |-> now,
                           ttl |-> EffectiveTtl(TtlOfCheck(outcome, cacheTtl),
                                                cacheTtl)])
    /\ lastCheck' = Some(outcome)
    /\ lastGet' = NoGet
    /\ UNCHANGED <<now, cacheSize, cacheTtl>>
    /\ UNCHANGED notCache

\* cleanupCache(), run by setInterval.
CleanupCache ==
    /\ dnsCache' = SelectSeq(dnsCache, LAMBDA e : ~StaleOnSweep(e, now))
    /\ UNCHANGED <<now, cacheSize, cacheTtl>>
    /\ lastGet' = NoGet
    /\ lastCheck' = Null
    /\ UNCHANGED notCache

\* clearCache().
ClearCache ==
    /\ dnsCache # <<>>
    /\ dnsCache' = <<>>
    /\ UNCHANGED <<now, cacheSize, cacheTtl>>
    /\ lastGet' = NoGet
    /\ lastCheck' = Null
    /\ UNCHANGED notCache

NextCache ==
    \/ Tick
    \/ \E key \in CacheKeys : GetCachedResult(key)
    \/ \E key \in CacheKeys, value \in CacheValues, ttl \in TtlArgs :
          SetCachedResult(key, value, ttl)
    \/ \E outcome \in MxOutcomes : CheckMxRecord(outcome)
    \/ CleanupCache
    \/ ClearCache

ParkedCache ==
    /\ dnsCache = <<>>
    /\ now = 0
    /\ cacheSize = 1
    /\ cacheTtl = 1
    /\ lastGet = NoGet
    /\ lastCheck = Null

(***************************************************************************)
(*       DisposableEmailChecker.checkEmail and performEmailCheck           *)
(***************************************************************************)
\* Domains as label lists, leftmost label first.
Listed == <<"tempmail", "com">>
SubOfListed == <<"a", "tempmail", "com">>
EmailDomains == {Listed, SubOfListed}

\* The limits of validateEmailFormat: email, local part and domain lengths.
MaxEmailLength == 254
MaxLocalPart == 64
MaxDomainLength == 253

\* Inputs of checkEmail: the lower-case text (local part length, number of
\* "@", domain and its length, whether the text matches EMAIL_REGEX) and how
\* the raw input decorates it (upper case, padding).
Email(d, form, ats, localLen) ==
    [domain |-> d, form |-> form, atCount |-> ats, localLen |-> localLen,
     domainLen |-> 12, grammar |-> TRUE]

WellFormedInputs ==
    {Email(d, "plain", 1, 4) : d \in EmailDomains}
        \cup {Email(Listed, "upper-padded", 1, 4)}

\* One input for each way the format can be wrong: no "@", "@" first, two
\* "@", local part too long, email too long, not in the grammar.
MalformedInputs ==
    {Email(Listed, "plain", 0, 4),
     Email(Listed, "plain", 1, 0),
     Email(Listed, "plain", 2, 4),
     Email(Listed, "plain", 1, MaxLocalPart + 1),
     [Email(Listed, "plain", 1, MaxLocalPart) EXCEPT
         !.domainLen = MaxEmailLength - MaxLocalPart],
     [Email(Listed, "plain", 1, 4) EXCEPT !.grammar = FALSE]}

EmailInputs == WellFormedInputs \cup MalformedInputs

\* Mutant of Normalize: the input is used as given.
Normalize_Raw(e) == e

\* email.toLowerCase().trim()
Normalize(e) == [e EXCEPT !.form = "plain"]

NormalEmails == {Normalize(e) : e \in EmailInputs}

\* email.length
EmailLength(e) == e.localLen + e.atCount + e.domainLen

\* EMAIL_PATTERN.test(normalizedEmail): one "@" between non-empty parts, a
\* dot in the domain, no white space.
QuickPattern(e) ==
    /\ e.form = "plain"
    /\ e.atCount = 1 /\ e.localLen >= 1 /\ e.domainLen >= 3 /\ Len(e.domain) >= 2

\* Mutant of ValidateEmailFormat: every text is accepted.
ValidateEmailFormat_Lenient(e) == Null

\* EmailValidator.validateEmailFormat: the first failing test's message, or
\* none.
ValidateEmailFormat(e) ==
    IF EmailLength(e) > MaxEmailLength
       THEN Some("Email address too long (max 254 characters)")
    ELSE IF e.atCount = 0 \/ e.localLen = 0 \/ e.domainLen = 0
       THEN Some("Invalid email format - missing or misplaced @ symbol")
    ELSE IF e.atCount > 1
       THEN Some("Invalid email format - multiple @ symbols")
    ELSE IF e.localLen > MaxLocalPart
       THEN Some("Local part too long (max 64 characters)")
    ELSE IF e.domainLen > MaxDomainLength
       THEN Some("Domain too long (max 253 characters)")
    ELSE IF ~e.grammar
       THEN Some("Invalid email format")
    ELSE Null

\* getPooledResult() with email set.
EmptyResult(e) ==
    [email |-> e, isValid |-> FALSE, isDisposable |-> FALSE, isAllowed |-> FALSE,
     isBlacklisted |-> FALSE, domain |-> <<>>, hasLocalPart |-> FALSE,
     matchType |-> "none", confidence |-> 0, errors |-> <<>>, warnings |-> <<>>,
     dnsValidation |-> Null, smtpValidation |-> Null]

Max(a, b) == IF a >= b THEN a ELSE b

NoMatch == [isMatch |-> FALSE, matchType |-> "none", confidence |-> 0]

RECURSIVE SuffixListed(_, _)
\* Whether a proper suffix of domain with at least two labels is in set.
SuffixListed(set, domain) ==
    IF Len(domain) <= 2 THEN FALSE
    ELSE Tail(domain) \in set \/ SuffixListed(set, Tail(domain))

\* DomainIndex lookup (spec 4.1): exact presence, else a listed suffix of at
\* least two labels when subdomain checking is on.
Lookup(set, domain, subdomains) ==
    IF domain \in set
       THEN [isMatch |-> TRUE, matchType |-> "exact", confidence |-> 100]
    ELSE IF subdomains /\ SuffixListed(set, domain)
       THEN [isMatch |-> TRUE, matchType |-> "subdomain", confidence |-> 90]
    ELSE NoMatch

\* DomainChecker.checkAllowlist: allowlist exact match (spec 4.6 step 3).
CheckAllowlist(domain) == domain \in allowlistSet

\* DomainChecker.checkBlacklist (spec 4.6 step 4).
CheckBlacklist(domain) == Lookup(blacklistSet, domain, config.enableSubdomainChecking)

\* DomainChecker.checkDisposableDomain (spec 4.6 step 5).
CheckDisposableDomain(domain) ==
    Lookup(disposableDomainsSet, domain, config.enableSubdomainChecking)

Configs ==
    [enableCaching : BOOLEAN, checkMxRecord : BOOLEAN,
     checkSmtpDeliverability : BOOLEAN, needsAdvancedValidation : BOOLEAN,
     patternMatching : BOOLEAN, enableSubdomainChecking : {TRUE}]

\* The state after initialize(): the loaded allowlist is empty (allowlist
\* entries arrive through addToAllowlist), the other lists are any subsets.
\* A checker is asked about well-formed emails or about malformed ones: the
\* two kinds of call share no cache key and no pipeline stage.
InitChecker ==
    /\ allowlistSet = {}
    /\ callerInputs \in {WellFormedInputs, MalformedInputs}
    /\ added = {}
    /\ atCall = [allowlisted |-> FALSE, added |-> FALSE, stored |-> FALSE]
    /\ failures = {}
    /\ rawForm = "plain"
    /\ blacklistSet \in SUBSET {Listed}
    /\ disposableDomainsSet \in SUBSET {Listed}
    /\ config \in {c \in Configs : c.needsAdvancedValidation => c.checkMxRecord}
    /\ resultCache = [e \in NormalEmails |-> Null]
    /\ cpc = "idle"
    /\ cur = Email(Listed, "plain", 1, 4)
    /\ cres = EmptyResult(cur)
    /\ dnsResult = Null
    /\ smtpArg = Null
    /\ stagesRun = {}
    /\ returned = Null
    /\ checks = 0

\* checkEmail returns r.
Return(r) ==
    /\ returned' = Some(r)
    /\ cpc' = "idle"

\* checkEmail(email) up to its first await, on the checker's own state:
\* normalization, the quick pattern test, then the cache lookup or
\* performEmailCheck.
StartOfCheck(e) ==
    /\ cpc = "idle"
    /\ checks < MaxChecks
    /\ checks' = checks + 1
    /\ cur' = Normalize(e)
    /\ stagesRun' = {}
    /\ dnsResult' = Null
    /\ smtpArg' = Null
    /\ IF ~QuickPattern(Normalize(e))
          THEN /\ Return([EmptyResult(Normalize(e)) EXCEPT
                            !.errors = <<"Invalid email format">>])
               /\ cres' = EmptyResult(Normalize(e))
          ELSE /\ cpc' = IF config.enableCaching THEN "cacheGet" ELSE "perform"
               /\ cres' = EmptyResult(Normalize(e))
               /\ returned' = Null
    /\ failures' = {}
    /\ atCall' = [allowlisted |-> Normalize(e).domain \in allowlistSet,
                   added |-> Normalize(e).domain \in added,
                   stored |-> /\ config.enableCaching
                              /\ resultCache[Normalize(e)] # Null]
    /\ UNCHANGED <<loaded, resultCache>>
    /\ UNCHANGED notChecker

\* checkEmail(email) is called.
CheckEmail(e) ==
    /\ e \in callerInputs
    /\ StartOfCheck(e)
    /\ rawForm' = e.form

\* Mutant of CacheGet: the lookup never finds an entry.
CacheGet_Miss ==
    /\ cpc = "cacheGet"
    /\ cpc' = "perform" /\ UNCHANGED returned
    /\ UNCHANGED <<loaded, atCall, rawForm, failures,
                   resultCache, cur, cres, dnsResult, smtpArg, stagesRun, checks>>
    /\ UNCHANGED notChecker

\* checkEmail after await cacheManager.get(normalizedEmail).
CacheGet ==
    /\ cpc = "cacheGet"
    /\ IF resultCache[cur] # Null
          THEN Return(resultCache[cur][1])
          ELSE cpc' = "perform" /\ UNCHANGED returned
    /\ UNCHANGED <<loaded, atCall, rawForm, failures,
                   resultCache, cur, cres, dnsResult, smtpArg, stagesRun, checks>>
    /\ UNCHANGED notChecker

\* Mutant of AllowlistStep: the allowlist test is skipped.
AllowlistStep_Skipped(r) == [allowed |-> FALSE, result |-> r]

\* performEmailCheck step 3: an allowlisted domain ends the pipeline.
AllowlistStep(r) ==
    IF CheckAllowlist(r.domain)
       THEN [allowed |-> TRUE,
             result |-> [r EXCEPT !.isAllowed = TRUE, !.matchType = "exact",
                                  !.confidence = 100]]
       ELSE [allowed |-> FALSE, result |-> r]

\* Mutant of BlacklistStep: a blacklist match leaves no trace.
BlacklistStep_Silent(r) == r

\* performEmailCheck step 4.
BlacklistStep(r) ==
    LET blacklistResult == CheckBlacklist(r.domain) IN
    IF blacklistResult.isMatch
       THEN [r EXCEPT !.isBlacklisted = TRUE,
                      !.matchType = blacklistResult.matchType,
                      !.confidence = blacklistResult.confidence]
       ELSE r

\* performEmailCheck step 5.
DisposableStep(r) ==
    LET disposableResult == CheckDisposableDomain(r.domain) IN
    IF disposableResult.isMatch
       THEN [r EXCEPT !.isDisposable = TRUE,
                      !.matchType = disposableResult.matchType,
                      !.confidence = Max(@, disposableResult.confidence)]
       ELSE r

\* Mutant of PatternStep: the pattern score replaces the confidence.
PatternStep_Overwrites(r, score) ==
    IF score > 0
       THEN [r EXCEPT !.warnings = <<"Matches suspicious pattern">>,
                      !.confidence = score,
                      !.isDisposable = IF score >= 80 THEN TRUE ELSE @,
                      !.matchType = IF score >= 80 THEN "pattern" ELSE @]
       ELSE r

\* performEmailCheck step 6, for the suspiciousScore analyzePatterns returns.
PatternStep(r, score) ==
    IF score > 0
       THEN [r EXCEPT !.warnings = <<"Matches suspicious pattern">>,
                      !.confidence = Max(@, score),
                      !.isDisposable = IF score >= 80 THEN TRUE ELSE @,
                      !.matchType = IF score >= 80 THEN "pattern" ELSE @]
       ELSE r

\* performEmailCheck from its start to its first await: format validation,
\* parsing, the allowlist and the blacklist.
PerformEmailCheck ==
    /\ cpc = "perform"
    /\ LET formatError == ValidateEmailFormat(cur) IN
       IF formatError # Null
          THEN /\ cres' = [cres EXCEPT !.errors = Append(@, formatError[1])]
               /\ stagesRun' = {"format"}
               /\ cpc' = "store"
          ELSE LET parsed == [cres EXCEPT !.hasLocalPart = TRUE,
                                          !.domain = cur.domain,
                                          !.isValid = TRUE]
                   step3 == AllowlistStep(parsed)
               IN IF step3.allowed
                     THEN /\ cres' = step3.result
                          /\ stagesRun' = {"format", "allowlist"}
                          /\ cpc' = "store"
                     ELSE /\ cres' = BlacklistStep(step3.result)
                          /\ stagesRun' = {"format", "allowlist", "blacklist"}
                          /\ cpc' = "disposable"
    /\ UNCHANGED <<loaded, atCall, rawForm, failures,
                   resultCache, cur, dnsResult, smtpArg, returned, checks>>
    /\ UNCHANGED notChecker

\* The position after the pattern stage and after the DNS stage.
AfterPatterns == IF config.checkMxRecord THEN "dns"
                 ELSE IF config.checkSmtpDeliverability THEN "smtp" ELSE "store"
AfterDns == IF config.checkSmtpDeliverability THEN "smtp" ELSE "store"

\* EmailValidator.analyzePatterns: the suspiciousScore of the inputs under the
\* configured custom patterns: 20 for each built-in pattern and 25 for each
\* custom pattern the text matches, capped at 100. It is a function of the
\* text alone.
SuspiciousScore(e) == IF e.domain = SubOfListed THEN 85 ELSE 40

\* performEmailCheck after await checkDisposableDomain(domain): steps 5 and 6,
\* up to the await of the DNS stage.
DisposableAndPatterns ==
    /\ cpc = "disposable"
    /\ cres' = IF config.patternMatching
                  THEN PatternStep(DisposableStep(cres), SuspiciousScore(cur))
                  ELSE DisposableStep(cres)
    /\ stagesRun' = stagesRun \cup {"disposable"}
                       \cup (IF config.patternMatching THEN {"pattern"} ELSE {})
    /\ cpc' = AfterPatterns
    /\ UNCHANGED <<loaded, atCall, rawForm, failures,
                   resultCache, cur, dnsResult, smtpArg, returned, checks>>
    /\ UNCHANGED notChecker

\* What the DNS engine may answer for a domain.
DnsAnswers ==
    {[hasMx |-> TRUE, mxRecords |-> <<MxRecord("mx1"), MxRecord("mx2")>>,
      warnings |-> <<>>, errors |-> <<>>],
     [hasMx |-> FALSE, mxRecords |-> <<>>,
      warnings |-> <<"No MX records found">>, errors |-> <<>>],
     [hasMx |-> FALSE, mxRecords |-> <<>>,
      warnings |-> <<>>, errors |-> <<"DNS resolution failed">>]}

\* performEmailCheck step 7 after the await of validateMxRecord (advanced) or
\* checkMxRecord (simple), which answered d.
DnsStage(d) ==
    /\ cpc = "dns"
    /\ IF config.needsAdvancedValidation
          THEN /\ dnsResult' = Some(d)
               /\ cres' = [cres EXCEPT
                    !.dnsValidation = Some([hasMx |-> d.hasMx, mxRecords |-> d.mxRecords]),
                    !.confidence = IF ~d.hasMx THEN Max(@, 60) ELSE @,
                    !.warnings =
                        (IF ~d.hasMx THEN Append(@, "No MX record found for domain") ELSE @)
                          \o d.warnings
                          \o (IF Len(d.errors) > 0
                                 THEN <<"DNS validation encountered errors">> ELSE <<>>)]
          ELSE /\ UNCHANGED dnsResult
               /\ cres' = [cres EXCEPT
                    !.confidence = IF ~d.hasMx THEN Max(@, 60) ELSE @,
                    !.warnings =
                        IF ~d.hasMx THEN Append(@, "No MX record found for domain") ELSE @]
    /\ stagesRun' = stagesRun \cup {"dns"}
    /\ failures' = failures \cup (IF Len(d.errors) > 0 THEN {"dns errors"} ELSE {})
    /\ cpc' = AfterDns
    /\ UNCHANGED <<loaded, atCall, rawForm,
                   resultCache, cur, smtpArg, returned, checks>>
    /\ UNCHANGED notChecker

\* What the SMTP engine may answer: a completed handshake, every server
\* failed (one warning), or a rejected attempt (one error).
SmtpAnswers ==
    {[isValid |-> TRUE, isMailboxValid |-> TRUE, warnings |-> <<>>, errors |-> <<>>],
     [isValid |-> FALSE, isMailboxValid |-> FALSE,
      warnings |-> <<"Connection timeout">>, errors |-> <<>>],
     [isValid |-> FALSE, isMailboxValid |-> FALSE,
      warnings |-> <<>>, errors |-> <<"SMTP validation failed">>]}

\* performEmailCheck step 8 after the await of validateSmtpDeliverability,
\* which answered v.
SmtpStage(v) ==
    /\ cpc = "smtp"
    /\ smtpArg' = IF dnsResult # Null /\ dnsResult[1].hasMx
                     /\ Len(dnsResult[1].mxRecords) > 0
                     THEN Some(dnsResult[1].mxRecords) ELSE Null
    /\ cres' = [cres EXCEPT
          !.smtpValidation = Some([isValid |-> v.isValid,
                                   isDeliverable |-> v.isMailboxValid]),
          !.confidence = IF ~v.isMailboxValid THEN Max(@, 70) ELSE @,
          !.warnings =
              (IF ~v.isMailboxValid
                  THEN Append(@, "Email address does not appear to be deliverable")
                  ELSE @)
                \o v.warnings
                \o (IF Len(v.errors) > 0
                       THEN <<"SMTP validation encountered errors">> ELSE <<>>)]
    /\ stagesRun' = stagesRun \cup {"smtp"}
    /\ failures' = failures \cup (IF ~v.isValid THEN {"smtp failed"} ELSE {})
    /\ cpc' = "store"
    /\ UNCHANGED <<loaded, atCall, rawForm,
                   resultCache, cur, dnsResult, returned, checks>>
    /\ UNCHANGED notChecker

\* checkEmail after await performEmailCheck(...): the result is cached when
\* caching is enabled, and returned.
StoreAndReturn ==
    /\ cpc = "store"
    /\ resultCache' = IF config.enableCaching
                         THEN [resultCache EXCEPT ![cur] = Some(cres)]
                         ELSE resultCache
    /\ Return(cres)
    /\ UNCHANGED <<loaded, atCall, rawForm, failures,
                   cur, cres, dnsResult, smtpArg, stagesRun, checks>>
    /\ UNCHANGED notChecker

\* The messages of the exceptions a collaborator may throw.
CacheFailure == "cache backend failure"

\* checkEmail's catch: the exception becomes the only error of a fresh result.
OuterCatch(e, message) == [EmptyResult(e) EXCEPT !.errors = <<message>>]

\* checkEmail when await cacheManager.get(normalizedEmail) throws.
CacheGetThrows ==
    /\ cpc = "cacheGet"
    /\ failures' = failures \cup {"cache"}
    /\ Return(OuterCatch(cur, CacheFailure))
    /\ UNCHANGED <<loaded, atCall, rawForm,
                   resultCache, cur, cres, dnsResult, smtpArg, stagesRun, checks>>
    /\ UNCHANGED notChecker

\* checkEmail when cacheManager.set throws (nothing is stored), or when
\* cacheManager.getStats throws after the result was stored.
StoreThrows(stored) ==
    /\ cpc = "store"
    /\ stored => config.enableCaching
    /\ resultCache' = IF stored
                         THEN [resultCache EXCEPT ![cur] = Some(cres)]
                         ELSE resultCache
    /\ failures' = failures \cup {"cache"}
    /\ Return(OuterCatch(cur, CacheFailure))
    /\ UNCHANGED <<loaded, atCall, rawForm,
                   cur, cres, dnsResult, smtpArg, stagesRun, checks>>
    /\ UNCHANGED notChecker

\* Mutant of DnsCatch: the failure is reported as an error.
DnsCatch_AsError(r) == [r EXCEPT !.errors = Append(@, "Failed to check DNS records")]

\* performEmailCheck step 7, catch.
DnsCatch(r) == [r EXCEPT !.warnings = Append(@, "Failed to check DNS records")]

\* performEmailCheck step 8, catch.
SmtpCatch(r) == [r EXCEPT !.warnings = Append(@, "Failed to perform SMTP validation")]

\* performEmailCheck step 7 when the awaited DNS validation throws.
DnsStageThrows ==
    /\ cpc = "dns"
    /\ cres' = DnsCatch(cres)
    /\ stagesRun' = stagesRun \cup {"dns"}
    /\ failures' = failures \cup {"dns thrown"}
    /\ cpc' = AfterDns
    /\ UNCHANGED <<loaded, atCall, rawForm,
                   resultCache, cur, dnsResult, smtpArg, returned, checks>>
    /\ UNCHANGED notChecker

\* performEmailCheck step 8 when the awaited SMTP validation throws.
SmtpStageThrows ==
    /\ cpc = "smtp"
    /\ smtpArg' = IF dnsResult # Null /\ dnsResult[1].hasMx
                     /\ Len(dnsResult[1].mxRecords) > 0
                     THEN Some(dnsResult[1].mxRecords) ELSE Null
    /\ cres' = SmtpCatch(cres)
    /\ stagesRun' = stagesRun \cup {"smtp"}
    /\ failures' = failures \cup {"smtp thrown"}
    /\ cpc' = "store"
    /\ UNCHANGED <<loaded, atCall, rawForm,
                   resultCache, cur, dnsResult, returned, checks>>
    /\ UNCHANGED notChecker

\* The domains addToAllowlist is called with.
AddedDomains == {Listed}

\* addToAllowlist(domain): DomainChecker.addToAllowlist inserts the domain
\* into the live allowlist (spec 4.1); the result cache is not touched.
AddToAllowlist(d) ==
    /\ d \notin added
    /\ allowlistSet' = allowlistSet \cup {d}
    /\ added' = added \cup {d}
    /\ UNCHANGED <<blacklistSet, disposableDomainsSet, config, callerInputs,
                   resultCache, cpc,
                   cur, cres, dnsResult, smtpArg, stagesRun, returned, checks,
                   failures, atCall, rawForm>>
    /\ UNCHANGED notChecker

NextChecker ==
    \/ \E e \in EmailInputs : CheckEmail(e)
    \/ CacheGet
    \/ PerformEmailCheck
    \/ DisposableAndPatterns
    \/ \E d \in DnsAnswers : DnsStage(d)
    \/ \E v \in SmtpAnswers : SmtpStage(v)
    \/ StoreAndReturn
    \/ \E d \in AddedDomains : AddToAllowlist(d)
    \/ CacheGetThrows
    \/ \E stored \in BOOLEAN : StoreThrows(stored)
    \/ DnsStageThrows
    \/ SmtpStageThrows

\* No checkEmail call of its own is in flight.
ParkedCall ==
    /\ allowlistSet = {}
    /\ callerInputs = {}
    /\ added = {}
    /\ atCall = [allowlisted |-> FALSE, added |-> FALSE, stored |-> FALSE]
    /\ failures = {}
    /\ rawForm = "plain"
    /\ cpc = "idle"
    /\ cur = Email(Listed, "plain", 1, 4)
    /\ cres = EmptyResult(cur)
    /\ dnsResult = Null
    /\ smtpArg = Null
    /\ stagesRun = {}
    /\ returned = Null
    /\ checks = 0

\* The configuration and the result cache of a checker that is not asked
\* about any email.
ParkedResults ==
    /\ config = [enableCaching |-> TRUE, checkMxRecord |-> FALSE,
                 checkSmtpDeliverability |-> FALSE,
                 needsAdvancedValidation |-> FALSE, patternMatching |-> FALSE,
                 enableSubdomainChecking |-> TRUE]
    /\ resultCache = [e \in NormalEmails |-> Null]

ParkedChecker ==
    /\ ParkedCall
    /\ blacklistSet = {}
    /\ disposableDomainsSet = {}
    /\ ParkedResults

(***************************************************************************)
(*          DnsResolver.validateDomain and resolveMxWithRetry              *)
(***************************************************************************)
RECURSIVE InsertByPriority(_, _)
\* q with record r put before the first record of greater priority.
InsertByPriority(q, r) ==
    IF q = <<>> THEN <<r>>
    ELSE IF r.priority < Head(q).priority THEN <<r>> \o q
    ELSE <<Head(q)>> \o InsertByPriority(Tail(q), r)

RECURSIVE SortByPriority(_)
\* mxRecords.sort((a, b) => a.priority - b.priority): ascending and stable.
SortByPriority(q) ==
    IF q = <<>> THEN <<>>
    ELSE InsertByPriority(SortByPriority(SubSeq(q, 1, Len(q) - 1)), q[Len(q)])

\* What resolveMxAsync may answer with.
ResolvedLists == {<<>>, <<MxRecord("mx1")>>, <<MxRecord("mx2"), MxRecord("mx1")>>}

\* How an attempt may fail: resolveMxAsync rejects (the name does not exist,
\* or it exists and has no MX record: dns.resolveMx rejects with ENODATA),
\* or the timer wins the race.
ResolveFailures == {"queryMx ENOTFOUND", "queryMx ENODATA", "DNS timeout"}

DnsConfigs ==
    [retries : 0..MaxRetries, validateMxConnectivity : BOOLEAN,
     checkSpfRecord : BOOLEAN, checkDmarcRecord : BOOLEAN]

\* validateDomain: const result.
EmptyDnsResult ==
    [hasMx |-> FALSE, mxRecords |-> <<>>, hasSpf |-> FALSE, hasDmarc |-> FALSE,
     isConnectable |-> FALSE, errors |-> <<>>, warnings |-> <<>>]

InitDns ==
    /\ dnsConfig \in DnsConfigs
    /\ dpc = "idle"
    /\ attempt = 0
    /\ lastError = Null
    /\ vdResult = EmptyDnsResult
    /\ attempts = <<>>
    /\ delays = <<>>
    /\ vdReturned = Null
    /\ dnsRepeats = 0
    /\ vdFirst = Null

\* validateDomain(domain) up to the first await: the operation is admitted by
\* the idle gate and resolveMxWithRetry enters its loop, or leaves it at once
\* when retries is 0.
ValidateDomain ==
    /\ dpc = "idle"
    /\ vdReturned = Null
    /\ activeRequests < concurrency
    /\ activeRequests' = activeRequests + 1
    /\ vdResult' = EmptyDnsResult
    /\ attempt' = 1
    /\ dpc' = IF 1 <= dnsConfig.retries THEN "resolving" ELSE "thrown"
    /\ UNCHANGED <<dnsConfig, lastError, attempts, vdReturned>>
    /\ UNCHANGED dnsRepeat
    /\ UNCHANGED delays
    /\ UNCHANGED notDns

\* A second validateDomain(domain) for the domain of the first, once the
\* first has returned, up to its first await: the call builds a new result
\* and enters resolveMxWithRetry; dnsCache is neither read nor written.
ValidateDomainAgain ==
    /\ dpc = "done"
    /\ dnsRepeats = 0
    /\ activeRequests < concurrency
    /\ dnsRepeats' = 1
    /\ vdFirst' = vdReturned
    /\ vdReturned' = Null
    /\ activeRequests' = activeRequests + 1
    /\ vdResult' = EmptyDnsResult
    /\ attempt' = 1
    /\ lastError' = Null
    /\ attempts' = <<>>
    /\ delays' = <<>>
    /\ dpc' = IF 1 <= dnsConfig.retries THEN "resolving" ELSE "thrown"
    /\ UNCHANGED dnsConfig
    /\ UNCHANGED notDns

\* The position after the MX block of validateDomain.
AfterMx == IF dnsConfig.checkSpfRecord THEN "spf"
           ELSE IF dnsConfig.checkDmarcRecord THEN "dmarc" ELSE "return"
AfterSpf == IF dnsConfig.checkDmarcRecord THEN "dmarc" ELSE "return"

\* An attempt resolves with records: the operation returns them, the gate
\* releases its slot, and validateDomain fills in the MX part of the result.
AttemptResolves(records) ==
    /\ dpc = "resolving"
    /\ attempts' = Append(attempts, "resolved")
    /\ activeRequests' = activeRequests - 1
    /\ IF Len(records) > 0
          THEN /\ vdResult' = [vdResult EXCEPT !.hasMx = TRUE,
                                               !.mxRecords = SortByPriority(records)]
               /\ dpc' = IF dnsConfig.validateMxConnectivity
                            THEN "connectivity" ELSE AfterMx
          ELSE /\ vdResult' = [vdResult EXCEPT
                                  !.warnings = Append(@, "No MX records found")]
               /\ dpc' = AfterMx
    /\ UNCHANGED <<dnsConfig, attempt, lastError, vdReturned>>
    /\ UNCHANGED dnsRepeat
    /\ UNCHANGED delays
    /\ UNCHANGED notDns

\* The first backoff delay and the longest one, in milliseconds.
BackoffBase == 1000
BackoffCap == 5000

\* Mutant of BackoffDelay: the delay doubles without a cap.
BackoffDelay_Uncapped(n) == BackoffBase * 2^(n - 1)

\* const delay = Math.min(1000 * Math.pow(2, attempt - 1), 5000)
BackoffDelay(n) ==
    LET doubled == BackoffBase * 2^(n - 1)
    IN  IF doubled <= BackoffCap THEN doubled ELSE BackoffCap

\* An attempt fails: the error is kept, and the loop backs off before the
\* next attempt or ends.
AttemptFails(error) ==
    /\ dpc = "resolving"
    /\ attempts' = Append(attempts, "failed")
    /\ lastError' = Some(error)
    /\ IF attempt < dnsConfig.retries
          THEN /\ dpc' = "backoff"
               /\ delays' = Append(delays, BackoffDelay(attempt))
               /\ UNCHANGED attempt
          ELSE /\ dpc' = "thrown"
               /\ attempt' = attempt + 1
               /\ UNCHANGED delays
    /\ UNCHANGED <<dnsConfig, vdResult, vdReturned, activeRequests>>
    /\ UNCHANGED dnsRepeat
    /\ UNCHANGED notDns

\* The backoff timer fires: the next attempt starts.
BackoffEnds ==
    /\ dpc = "backoff"
    /\ attempt' = attempt + 1
    /\ dpc' = "resolving"
    /\ UNCHANGED <<dnsConfig, lastError, vdResult, attempts, vdReturned,
                   activeRequests>>
    /\ UNCHANGED dnsRepeat
    /\ UNCHANGED delays
    /\ UNCHANGED notDns

\* throw lastError || new Error("MX resolution failed")
ThrownError == IF lastError # Null THEN lastError[1] ELSE "MX resolution failed"

\* Mutant of CatchResolution: the exception is swallowed.
CatchResolution_Silent(r, message) == r

\* validateDomain's catch.
CatchResolution(r, message) ==
    [r EXCEPT !.errors = Append(@, <<"DNS resolution failed: ", message>>)]

\* resolveMxWithRetry throws: the gate releases its slot, validateDomain
\* catches the error, skips the SPF and DMARC checks, and returns.
ResolutionThrows ==
    /\ dpc = "thrown"
    /\ activeRequests' = activeRequests - 1
    /\ vdResult' = CatchResolution(vdResult, ThrownError)
    /\ vdReturned' = Some(CatchResolution(vdResult, ThrownError))
    /\ dpc' = "done"
    /\ UNCHANGED <<dnsConfig, attempt, lastError, attempts>>
    /\ UNCHANGED dnsRepeat
    /\ UNCHANGED delays
    /\ UNCHANGED notDns

\* validateMxConnectivity resolves with connectable.
Connectivity(connectable) ==
    /\ dpc = "connectivity"
    /\ vdResult' = [vdResult EXCEPT !.isConnectable = connectable]
    /\ dpc' = AfterMx
    /\ UNCHANGED <<dnsConfig, attempt, lastError, attempts, vdReturned,
                   activeRequests>>
    /\ UNCHANGED dnsRepeat
    /\ UNCHANGED delays
    /\ UNCHANGED notDns

\* checkSpfRecord resolves with found (false also when its query throws).
Spf(found) ==
    /\ dpc = "spf"
    /\ vdResult' = [vdResult EXCEPT
          !.hasSpf = found,
          !.warnings = IF found THEN @ ELSE Append(@, "No SPF record found")]
    /\ dpc' = AfterSpf
    /\ UNCHANGED <<dnsConfig, attempt, lastError, attempts, vdReturned,
                   activeRequests>>
    /\ UNCHANGED dnsRepeat
    /\ UNCHANGED delays
    /\ UNCHANGED notDns

\* checkDmarcRecord resolves with found (false also when its query throws).
Dmarc(found) ==
    /\ dpc = "dmarc"
    /\ vdResult' = [vdResult EXCEPT
          !.hasDmarc = found,
          !.warnings = IF found THEN @ ELSE Append(@, "No DMARC record found")]
    /\ dpc' = "return"
    /\ UNCHANGED <<dnsConfig, attempt, lastError, attempts, vdReturned,
                   activeRequests>>
    /\ UNCHANGED dnsRepeat
    /\ UNCHANGED delays
    /\ UNCHANGED notDns

\* validateDomain returns its result.
ReturnDns ==
    /\ dpc = "return"
    /\ vdReturned' = Some(vdResult)
    /\ dpc' = "done"
    /\ UNCHANGED <<dnsConfig, attempt, lastError, vdResult, attempts,
                   activeRequests>>
    /\ UNCHANGED dnsRepeat
    /\ UNCHANGED delays
    /\ UNCHANGED notDns

NextDns ==
    \/ ValidateDomain
    \/ ValidateDomainAgain
    \/ \E records \in ResolvedLists : AttemptResolves(records)
    \/ \E error \in ResolveFailures : AttemptFails(error)
    \/ BackoffEnds
    \/ ResolutionThrows
    \/ \E connectable \in BOOLEAN : Connectivity(connectable)
    \/ \E found \in BOOLEAN : Spf(found)
    \/ \E found \in BOOLEAN : Dmarc(found)
    \/ ReturnDns

\* No validateDomain call made.
ParkedDnsCall ==
    /\ dpc = "idle"
    /\ attempt = 0
    /\ lastError = Null
    /\ vdResult = EmptyDnsResult
    /\ attempts = <<>>
    /\ delays = <<>>
    /\ vdReturned = Null
    /\ dnsRepeats = 0
    /\ vdFirst = Null

ParkedDns ==
    /\ dnsConfig = [retries |-> 1, validateMxConnectivity |-> FALSE,
                    checkSpfRecord |-> FALSE, checkDmarcRecord |-> FALSE]
    /\ ParkedDnsCall

(***************************************************************************)
(*               DisposableEmailChecker.checkEmailsBatch                   *)
(***************************************************************************)
\* Math.min(50, Math.max(10, Math.floor(uncachedEmails.length / 4)))
ChunkCeiling == 50
ChunkFloor == 10
ChunkDivisor == 4

Min(a, b) == IF a <= b THEN a ELSE b

ChunkSize(n) == Min(ChunkCeiling, Max(ChunkFloor, n \div ChunkDivisor))

\* The number of iterations of the loop over the chunks of n emails.
ChunkCount(n) == (n + ChunkSize(n) - 1) \div ChunkSize(n)

\* uncachedEmails.slice(i, i + chunkSize) of the c-th iteration.
Chunk(uncached, c) ==
    SubSeq(uncached, (c - 1) * ChunkSize(Len(uncached)) + 1,
           Min(c * ChunkSize(Len(uncached)), Len(uncached)))

Range(q) == {q[i] : i \in 1..Len(q)}

RECURSIVE Unique(_)
\* [...new Set(q)]: the first occurrences, in order.
Unique(q) ==
    IF q = <<>> THEN <<>>
    ELSE LET front == Unique(SubSeq(q, 1, Len(q) - 1)) IN
         IF q[Len(q)] \in Range(front) THEN front ELSE Append(front, q[Len(q)])

\* emails.map((email) => email.toLowerCase().trim())
NormalizedEmails(es) == [i \in 1..Len(es) |-> Normalize(es[i])]

\* The emails batches are made of: two spellings of one email, an email at
\* a subdomain, and a text without "@".
BatchInputs ==
    {Email(Listed, "plain", 1, 4), Email(Listed, "upper-padded", 1, 4),
     Email(SubOfListed, "plain", 1, 4), Email(Listed, "plain", 0, 4)}

\* A batch with one email more than a chunk holds, and a repeated email at
\* its end.
LongBatch ==
    [i \in 1..(ChunkFloor + 2) |->
        IF i <= ChunkFloor + 1 THEN Email(Listed, "plain", 1, i)
        ELSE Email(Listed, "upper-padded", 1, 4)]

\* The iterations the loop over the chunks can make.
ChunkNumbers == 1..ChunkCount(Len(LongBatch))

Batches ==
    UNION {[1..n -> BatchInputs] : n \in 0..MaxBatch} \cup {LongBatch}

BatchKeys == {Normalize(e) : e \in BatchInputs \cup Range(LongBatch)}

\* What performEmailCheck(k) returns when pattern matching and the DNS and
\* SMTP stages are switched off.
Classified(k) ==
    LET formatError == ValidateEmailFormat(k)
        parsed == [EmptyResult(k) EXCEPT !.hasLocalPart = TRUE,
                                         !.domain = k.domain,
                                         !.isValid = TRUE]
        step3 == AllowlistStep(parsed)
    IN IF formatError # Null
          THEN [EmptyResult(k) EXCEPT !.errors = <<formatError[1]>>]
          ELSE IF step3.allowed THEN step3.result
               ELSE DisposableStep(BlacklistStep(step3.result))

\* The state after initialize(), with entries for some emails in the result
\* cache when caching is enabled; the long batch meets an empty cache or one
\* that holds its repeated email.
InitBatch ==
    /\ ParkedCall
    /\ blacklistSet = {}
    /\ disposableDomainsSet = {Listed}
    /\ config \in {[enableCaching |-> c, checkMxRecord |-> FALSE,
                    checkSmtpDeliverability |-> FALSE,
                    needsAdvancedValidation |-> FALSE,
                    patternMatching |-> FALSE,
                    enableSubdomainChecking |-> TRUE] : c \in BOOLEAN}
    /\ \E stored \in SUBSET {Normalize(e) : e \in BatchInputs} :
          /\ \A k \in stored : config.enableCaching /\ QuickPattern(k)
          /\ resultCache =
                [k \in BatchKeys |->
                    IF k \in stored THEN Some(Classified(k)) ELSE Null]
    /\ emails = <<>>
    /\ bpc = "idle"
    /\ uncachedEmails = <<>>
    /\ resultMap = [k \in BatchKeys |-> Null]
    /\ callDone = [k \in BatchKeys |-> Null]
    /\ merged = {}
    /\ overtaken = FALSE
    /\ results = Null

\* checkEmailsBatch(es) up to await Promise.all(cachePromises). The long
\* batch is submitted to a cache that holds nothing but emails of the batch.
CheckEmailsBatch(es) ==
    /\ bpc = "idle"
    /\ es = LongBatch =>
          \A k \in BatchKeys : resultCache[k] # Null => k \in Range(NormalizedEmails(es))
    /\ emails' = es
    /\ bpc' = "cacheGets"
    /\ UNCHANGED <<uncachedEmails, resultMap, callDone, merged, overtaken,
                   results, resultCache>>
    /\ UNCHANGED notBatch

\* checkEmailsBatch after the cache lookups: the cached results go to
\* resultMap, the other emails to uncachedEmails, and the checkEmail calls
\* of every chunk start.
SeparateCached ==
    /\ bpc = "cacheGets"
    /\ LET uniqueEmails == Unique(NormalizedEmails(emails))
           cached(k) == IF config.enableCaching THEN resultCache[k] ELSE Null
       IN /\ resultMap' = [k \in BatchKeys |->
                              IF k \in Range(uniqueEmails) THEN cached(k) ELSE Null]
          /\ uncachedEmails' = SelectSeq(uniqueEmails, LAMBDA k : cached(k) = Null)
    /\ bpc' = "processing"
    /\ UNCHANGED <<emails, callDone, merged, overtaken, results, resultCache>>
    /\ UNCHANGED notBatch

\* checkEmailsBatch when a cacheManager.get of the batch throws: the call
\* rejects.
BatchCacheGetThrows ==
    /\ bpc = "cacheGets"
    /\ config.enableCaching
    /\ emails # <<>>
    /\ bpc' = "thrown"
    /\ UNCHANGED <<emails, uncachedEmails, resultMap, callDone, merged,
                   overtaken, results, resultCache>>
    /\ UNCHANGED notBatch

\* this.checkEmail(k) of a chunk resolves: with the quick-test error, with
\* a cached entry, with the computed result (stored when caching is
\* enabled), or with the error result of its catch when cacheManager.get or
\* cacheManager.set throws (the cache fails during batches of up to
\* MaxBatch emails).
NestedCheckEmail(k, cacheThrows) ==
    /\ bpc = "processing"
    /\ cacheThrows => Len(emails) <= MaxBatch
    /\ k \in Range(uncachedEmails)
    /\ callDone[k] = Null
    /\ LET r == IF ~QuickPattern(k)
                   THEN [EmptyResult(k) EXCEPT !.errors = <<"Invalid email format">>]
                ELSE IF cacheThrows THEN OuterCatch(k, CacheFailure)
                ELSE IF config.enableCaching /\ resultCache[k] # Null
                   THEN resultCache[k][1]
                ELSE Classified(k)
       IN /\ cacheThrows => QuickPattern(k)
          /\ callDone' = [callDone EXCEPT ![k] = Some(r)]
          /\ resultCache' = IF config.enableCaching /\ QuickPattern(k) /\ ~cacheThrows
                               THEN [resultCache EXCEPT ![k] = Some(r)]
                               ELSE resultCache
    /\ overtaken' = (overtaken \/ \E i, j \in 1..Len(uncachedEmails) :
                                     /\ i < j /\ uncachedEmails[j] = k
                                     /\ callDone[uncachedEmails[i]] = Null)
    /\ UNCHANGED <<emails, bpc, uncachedEmails, resultMap, merged, results>>
    /\ UNCHANGED notBatch

\* The then-handler of the c-th chunk, once every checkEmail of the chunk
\* has resolved: chunkResults are in the order of the chunk.
ChunkThen(c) ==
    /\ bpc = "processing"
    /\ c \in 1..ChunkCount(Len(uncachedEmails))
    /\ c \notin merged
    /\ \A k \in Range(Chunk(uncachedEmails, c)) : callDone[k] # Null
    /\ resultMap' = [k \in BatchKeys |->
                        IF k \in Range(Chunk(uncachedEmails, c))
                           THEN callDone[k] ELSE resultMap[k]]
    /\ merged' = merged \cup {c}
    /\ UNCHANGED <<emails, bpc, uncachedEmails, callDone, overtaken, results,
                   resultCache>>
    /\ UNCHANGED notBatch

\* Mutant of Assemble: one result for each distinct email.
Assemble_Unique(es, map) ==
    [i \in 1..Len(Unique(NormalizedEmails(es))) |->
        map[Unique(NormalizedEmails(es))[i]]]

\* for (const email of normalizedEmails) results.push(resultMap.get(email)!)
Assemble(es, map) ==
    [i \in 1..Len(es) |-> map[NormalizedEmails(es)[i]]]

\* checkEmailsBatch after await Promise.all(processingPromises).
ReturnBatch ==
    /\ bpc = "processing"
    /\ merged = 1..ChunkCount(Len(uncachedEmails))
    /\ results' = Some(Assemble(emails, resultMap))
    /\ bpc' = "returned"
    /\ UNCHANGED <<emails, uncachedEmails, resultMap, callDone, merged,
                   overtaken, resultCache>>
    /\ UNCHANGED notBatch

NextBatch ==
    \/ \E es \in Batches : CheckEmailsBatch(es)
    \/ SeparateCached
    \/ BatchCacheGetThrows
    \/ \E k \in BatchKeys, cacheThrows \in BOOLEAN : NestedCheckEmail(k, cacheThrows)
    \/ \E c \in ChunkNumbers : ChunkThen(c)
    \/ ReturnBatch

ParkedBatch ==
    /\ emails = <<>>
    /\ bpc = "idle"
    /\ uncachedEmails = <<>>
    /\ resultMap = <<>>
    /\ callDone = <<>>
    /\ merged = {}
    /\ overtaken = FALSE
    /\ results = Null

(***************************************************************************)
(*        DisposableEmailChecker.buildIndex and the domain index           *)
(***************************************************************************)
\* A domain on no list and under no listed domain.
Unrelated == <<"example", "org">>

IndexDomains == {Listed, SubOfListed, Unrelated}

\* The number of hash functions of the filter.
BloomHashes == 2

\* The bit positions a domain can hash to.
HashChoices ==
    {S \in SUBSET (1..BloomBits) : S # {} /\ Cardinality(S) <= BloomHashes}

\* BloomFilter.add: the bits of the domain's hashes are set.
BloomAdd(bits, domain) == bits \cup hashes[domain]

\* BloomFilter membership test: every bit of the domain's hashes is set.
BloomContains(bits, domain) == hashes[domain] \subseteq bits

RECURSIVE BloomAddAll(_, _)
BloomAddAll(bits, domains) ==
    IF domains = {} THEN bits
    ELSE LET d == CHOOSE x \in domains : TRUE IN
         BloomAddAll(BloomAdd(bits, d), domains \ {d})

\* Mutant of BuildBloomFilter: the loop over the blacklist is missing.
BuildBloomFilter_DisposableOnly == BloomAddAll({}, disposableDomainsSet)

\* buildBloomFilter: a new filter, then every disposable domain and every
\* blacklisted domain is added.
BuildBloomFilter ==
    BloomAddAll(BloomAddAll({}, disposableDomainsSet), blacklistSet)

\* buildTrieIndex: every domain of the three sets is inserted with the label
\* of its set.
BuildTrieIndex ==
    {<<d, "disposable">> : d \in disposableDomainsSet}
        \cup {<<d, "allowed">> : d \in allowlistSet}
        \cup {<<d, "blacklisted">> : d \in blacklistSet}

\* The domains the trie holds under a label.
TrieDomains(trie, label) == {e[1] : e \in {x \in trie : x[2] = label}}

IndexingStrategies == {"trie", "bloom", "hybrid", "hash"}

\* The state after the constructor and loadAllData(): the lists are loaded,
\* no index is built.
InitIndex ==
    /\ ParkedCall
    /\ ParkedResults
    /\ disposableDomainsSet \in SUBSET {Listed, Unrelated}
    /\ blacklistSet \in SUBSET {Unrelated}
    /\ indexingStrategy \in IndexingStrategies
    /\ ipc = "loaded"
    /\ domainTrie = Null
    /\ bloomFilter = Null
    /\ hashes \in [IndexDomains -> HashChoices]
    /\ probe = Null

\* buildIndex() followed by updateComponents().
BuildIndex ==
    /\ ipc = "loaded"
    /\ domainTrie' = IF indexingStrategy \in {"trie", "hybrid"}
                        THEN Some(BuildTrieIndex) ELSE Null
    /\ bloomFilter' = IF indexingStrategy \in {"bloom", "hybrid"}
                         THEN Some(BuildBloomFilter) ELSE Null
    /\ ipc' = "ready"
    /\ UNCHANGED <<indexingStrategy, hashes, probe>>
    /\ UNCHANGED notIndex

\* The membership test of the filter for a domain.
BloomTest(domain) ==
    /\ ipc = "ready"
    /\ bloomFilter # Null
    /\ probe' = [kind |-> "bloom", domain |-> domain,
                 answer |-> BloomContains(bloomFilter[1], domain)]
    /\ UNCHANGED <<indexingStrategy, ipc, domainTrie, bloomFilter, hashes>>
    /\ UNCHANGED notIndex

\* The lookup of the domain index (spec 4.1): with a filter, a negative
\* membership test is the answer; otherwise exact presence and then the
\* suffixes are tested against the trie (against the set, without a trie).
IndexLookup(domain) ==
    IF bloomFilter # Null /\ ~BloomContains(bloomFilter[1], domain)
       THEN NoMatch
    ELSE IF domainTrie # Null
       THEN Lookup(TrieDomains(domainTrie[1], "disposable"), domain,
                   config.enableSubdomainChecking)
    ELSE Lookup(disposableDomainsSet, domain, config.enableSubdomainChecking)

\* DomainChecker.checkDisposableDomain(domain) on the built index.
CheckIndexedDomain(domain) ==
    /\ ipc = "ready"
    /\ probe' = [kind |-> "lookup", domain |-> domain,
                 answer |-> IndexLookup(domain)]
    /\ UNCHANGED <<indexingStrategy, ipc, domainTrie, bloomFilter, hashes>>
    /\ UNCHANGED notIndex

NextIndex ==
    \/ BuildIndex
    \/ \E d \in IndexDomains : BloomTest(d)
    \/ \E d \in IndexDomains : CheckIndexedDomain(d)

ParkedIndex ==
    /\ indexingStrategy = "hybrid"
    /\ ipc = "loaded"
    /\ domainTrie = Null
    /\ bloomFilter = Null
    /\ hashes = <<>>
    /\ probe = Null

(***************************************************************************)
(*                    DnsResolver.validateMxRecordsBatch                   *)
(***************************************************************************)
\* The domains asked about.
MxDomains == {"a.com", "b.com"}

RECURSIVE SeqsUpTo(_, _)
\* The sequences of at most n elements of S.
SeqsUpTo(S, n) ==
    IF n = 0 THEN {<<>>}
    ELSE LET shorter == SeqsUpTo(S, n - 1)
         IN  shorter \cup {Append(q, x) : q \in {t \in shorter : Len(t) = n - 1}, x \in S}

\* The configurations of the resolver whose validateDomain ends with the MX
\* resolution.
MxOnlyConfigs ==
    {c \in DnsConfigs : /\ c.retries \in 1..2
                        /\ ~c.validateMxConnectivity
                        /\ ~c.checkSpfRecord
                        /\ ~c.checkDmarcRecord}

\* A call not made yet, and a call at its n-th attempt.
NotCalled == [pc |-> "unstarted", attempt |-> 0]
Resolving(n) == [pc |-> "resolving", attempt |-> n]

\* The resolver with an empty cache: every domain of the argument, repeated
\* ones included, goes to uncachedDomains.
InitMxBatch ==
    /\ uncachedDomains \in SeqsUpTo(MxDomains, MaxDomains)
    /\ mpc = "idle"
    /\ chunkNo = 0
    /\ mxCalls = [i \in 1..Len(uncachedDomains) |-> NotCalled]
    /\ concurrency \in 1..MaxConcurrency
    /\ activeRequests = 0
    /\ dnsConfig \in MxOnlyConfigs

\* Mutant of MxChunkSize: one chunk holds every domain.
MxChunkSize_Whole == Len(uncachedDomains)

\* const chunkSize = Math.min(this.config.concurrency, uncachedDomains.length)
MxChunkSize == Min(concurrency, Len(uncachedDomains))

\* The positions in uncachedDomains of chunk number c.
MxChunk(c) ==
    {i \in 1..Len(uncachedDomains) :
        (c - 1) * MxChunkSize < i /\ i <= c * MxChunkSize}

\* chunk.map((domain) => this.validateMxRecord(domain)): every call of the
\* chunk runs up to its first await, which is the first MX query, made
\* inside the gate; a chunk is never larger than concurrency, so every
\* call is admitted.
StartChunk(c) ==
    /\ chunkNo' = c
    /\ mxCalls' = [i \in DOMAIN mxCalls |->
                      IF i \in MxChunk(c) THEN Resolving(1) ELSE mxCalls[i]]
    /\ activeRequests' = activeRequests + Cardinality(MxChunk(c))

\* validateMxRecordsBatch(domains) up to its first await.
ValidateMxRecordsBatch ==
    /\ mpc = "idle"
    /\ IF Len(uncachedDomains) > 0
          THEN /\ mpc' = "chunk"
               /\ StartChunk(1)
          ELSE /\ mpc' = "done"
               /\ UNCHANGED <<chunkNo, mxCalls, activeRequests>>
    /\ UNCHANGED uncachedDomains
    /\ UNCHANGED notMxBatch

\* The MX query of call i resolves: resolveMxWithRetry returns, the gate
\* releases the slot, and validateMxRecord returns.
MxResolves(i) ==
    /\ i \in DOMAIN mxCalls
    /\ mxCalls[i].pc = "resolving"
    /\ mxCalls' = [mxCalls EXCEPT ![i].pc = "returned"]
    /\ activeRequests' = activeRequests - 1
    /\ UNCHANGED <<uncachedDomains, mpc, chunkNo>>
    /\ UNCHANGED notMxBatch

\* The MX query of call i fails or times out: the call backs off, or after
\* the last attempt throws, the gate releases the slot, and validateDomain
\* catches the error and returns.
MxFails(i) ==
    /\ i \in DOMAIN mxCalls
    /\ mxCalls[i].pc = "resolving"
    /\ IF mxCalls[i].attempt < dnsConfig.retries
          THEN /\ mxCalls' = [mxCalls EXCEPT ![i].pc = "backoff"]
               /\ UNCHANGED activeRequests
          ELSE /\ mxCalls' = [mxCalls EXCEPT ![i].pc = "returned"]
               /\ activeRequests' = activeRequests - 1
    /\ UNCHANGED <<uncachedDomains, mpc, chunkNo>>
    /\ UNCHANGED notMxBatch

\* The backoff timer of call i fires: its next MX query is made.
MxBackoffEnds(i) ==
    /\ i \in DOMAIN mxCalls
    /\ mxCalls[i].pc = "backoff"
    /\ mxCalls' = [mxCalls EXCEPT ![i] = Resolving(mxCalls[i].attempt + 1)]
    /\ UNCHANGED <<uncachedDomains, mpc, chunkNo, activeRequests>>
    /\ UNCHANGED notMxBatch

\* Promise.all(promises) resolves: the results of the chunk are stored and
\* the next chunk is started, or the call returns.
ChunkSettles ==
    /\ mpc = "chunk"
    /\ \A i \in MxChunk(chunkNo) : mxCalls[i].pc = "returned"
    /\ IF chunkNo * MxChunkSize < Len(uncachedDomains)
          THEN /\ StartChunk(chunkNo + 1)
               /\ UNCHANGED mpc
          ELSE /\ mpc' = "done"
               /\ UNCHANGED <<chunkNo, mxCalls, activeRequests>>
    /\ UNCHANGED uncachedDomains
    /\ UNCHANGED notMxBatch

CallNumbers == 1..(MaxDomains + 1)

NextMxBatch ==
    \/ ValidateMxRecordsBatch
    \/ \E i \in CallNumbers : MxResolves(i)
    \/ \E i \in CallNumbers : MxFails(i)
    \/ \E i \in CallNumbers : MxBackoffEnds(i)
    \/ ChunkSettles

ParkedMxBatch ==
    /\ uncachedDomains = <<>>
    /\ mpc = "idle"
    /\ chunkNo = 0
    /\ mxCalls = <<>>

(***************************************************************************)
(*                    DisposableEmailChecker.forceUpdate                   *)
(***************************************************************************)
\* What forceUpdate and the lookups leave alone.
notUpdate == <<gateVars, smtpVars, cacheVars, dnsVars, batchVars, mxBatchVars,
               initVars, added, config, callerInputs, resultCache, cpc, cur,
               cres, dnsResult, smtpArg, stagesRun, returned, checks,
               failures, atCall, rawForm, indexingStrategy, ipc, hashes,
               probe>>

\* The forceUpdate calls of a behaviour.
MaxUpdates == 2

\* The lists the DataLoader can supply: each load returns new sets.
ListChoices ==
    [disposable : SUBSET {Listed, Unrelated},
     allowlist : {{}},
     blacklist : SUBSET {Listed}]

\* The hash functions of the filter in the update model.
UpdateHashes ==
    {[d \in IndexDomains |-> {1}],
     [d \in IndexDomains |-> IF d = Listed THEN {1} ELSE {2}]}

\* new DomainChecker(disposableDomainsSet, allowlistSet, blacklistSet, ...,
\* domainTrie, bloomFilter, indexingStrategy): the object keeps what it is
\* constructed with.
NewDomainChecker ==
    [disposable |-> disposableDomainsSet,
     allowlist |-> allowlistSet,
     blacklist |-> blacklistSet,
     trie |-> domainTrie,
     bloom |-> bloomFilter]

\* The state after initialize(): the lists are loaded, the index of the
\* configured strategy is built and the DomainChecker is constructed from
\* them. No forceUpdate and no lookup is in progress.
InitUpdate ==
    /\ added = {}
    /\ callerInputs = {}
    /\ atCall = [allowlisted |-> FALSE, added |-> FALSE, stored |-> FALSE]
    /\ failures = {}
    /\ rawForm = "plain"
    /\ cpc = "idle"
    /\ cur = Email(Listed, "plain", 1, 4)
    /\ cres = EmptyResult(cur)
    /\ dnsResult = Null
    /\ smtpArg = Null
    /\ stagesRun = {}
    /\ returned = Null
    /\ checks = 0
    /\ ParkedResults
    /\ \E lists \in ListChoices :
          /\ disposableDomainsSet = lists.disposable
          /\ allowlistSet = lists.allowlist
          /\ blacklistSet = lists.blacklist
    /\ indexingStrategy \in IndexingStrategies
    /\ ipc = "ready"
    /\ hashes \in UpdateHashes
    /\ probe = Null
    /\ domainTrie = IF indexingStrategy \in {"trie", "hybrid"}
                       THEN Some(BuildTrieIndex) ELSE Null
    /\ bloomFilter = IF indexingStrategy \in {"bloom", "hybrid"}
                        THEN Some(BuildBloomFilter) ELSE Null
    /\ domainChecker = NewDomainChecker
    /\ upc = "idle"
    /\ updates = 0
    /\ lookup = Null

\* The lists of a DomainChecker object.
ListsOf(dc) ==
    [disposable |-> dc.disposable, allowlist |-> dc.allowlist,
     blacklist |-> dc.blacklist]

\* The lists in the checker's own fields.
LoadedLists ==
    [disposable |-> disposableDomainsSet, allowlist |-> allowlistSet,
     blacklist |-> blacklistSet]

\* forceUpdate(): the call, up to the await of the loads in loadAllData.
ForceUpdate ==
    /\ upc = "idle"
    /\ updates < MaxUpdates
    /\ upc' = "loading"
    /\ updates' = updates + 1
    /\ UNCHANGED <<domainChecker, lookup>>
    /\ UNCHANGED <<allowlistSet, blacklistSet, disposableDomainsSet,
                   domainTrie, bloomFilter>>
    /\ UNCHANGED notUpdate

\* The lists a lookup in flight has seen loaded.
Seeing(l, lists) ==
    IF l # Null /\ l[1].awaited
       THEN Some([l[1] EXCEPT !.seen = @ \cup {lists}]) ELSE l

\* Mutant of LoadAllData: the loaded sets are handed to a new DomainChecker
\* at once, with the index built from the earlier sets.
LoadAllData_Publishes(lists) ==
    /\ upc = "loading"
    /\ disposableDomainsSet' = lists.disposable
    /\ allowlistSet' = lists.allowlist
    /\ blacklistSet' = lists.blacklist
    /\ domainChecker' = [disposable |-> lists.disposable,
                         allowlist |-> lists.allowlist,
                         blacklist |-> lists.blacklist,
                         trie |-> domainTrie,
                         bloom |-> bloomFilter]
    /\ lookup' = Seeing(lookup, lists)
    /\ upc' = "loaded"
    /\ UNCHANGED <<updates, domainTrie, bloomFilter>>
    /\ UNCHANGED notUpdate

\* loadAllData() after the three loads resolved: the fields are assigned the
\* new sets. The DomainChecker object keeps the sets it was constructed with.
LoadAllData(lists) ==
    /\ upc = "loading"
    /\ disposableDomainsSet' = lists.disposable
    /\ allowlistSet' = lists.allowlist
    /\ blacklistSet' = lists.blacklist
    /\ lookup' = Seeing(lookup, lists)
    /\ upc' = "loaded"
    /\ UNCHANGED <<domainChecker, updates, domainTrie, bloomFilter>>
    /\ UNCHANGED notUpdate

\* A load rejects: Promise.all rejects, loadAllData assigns nothing and
\* forceUpdate rejects.
LoadRejects ==
    /\ upc = "loading"
    /\ upc' = "idle"
    /\ UNCHANGED <<domainChecker, updates, lookup>>
    /\ UNCHANGED <<allowlistSet, blacklistSet, disposableDomainsSet,
                   domainTrie, bloomFilter>>
    /\ UNCHANGED notUpdate

\* forceUpdate after await loadAllData(): buildIndex() runs to its end, the
\* strategy's structures are built anew from the fields, and its promise is
\* awaited.
RebuildIndex ==
    /\ upc = "loaded"
    /\ domainTrie' = IF indexingStrategy \in {"trie", "hybrid"}
                        THEN Some(BuildTrieIndex) ELSE domainTrie
    /\ bloomFilter' = IF indexingStrategy \in {"bloom", "hybrid"}
                         THEN Some(BuildBloomFilter) ELSE bloomFilter
    /\ upc' = "built"
    /\ UNCHANGED <<domainChecker, updates, lookup>>
    /\ UNCHANGED <<allowlistSet, blacklistSet, disposableDomainsSet>>
    /\ UNCHANGED notUpdate

\* forceUpdate after await buildIndex(): updateComponents() replaces the
\* DomainChecker object.
UpdateComponents ==
    /\ upc = "built"
    /\ domainChecker' = NewDomainChecker
    /\ upc' = "idle"
    /\ UNCHANGED <<updates, lookup>>
    /\ UNCHANGED <<allowlistSet, blacklistSet, disposableDomainsSet,
                   domainTrie, bloomFilter>>
    /\ UNCHANGED notUpdate

\* DomainChecker.checkDisposableDomain on the structures of the object (spec
\* 4.1): with a filter, a negative membership test is the answer; otherwise
\* the trie, or without a trie the set, is searched.
CheckerLookup(dc, domain) ==
    IF dc.bloom # Null /\ ~BloomContains(dc.bloom[1], domain)
       THEN NoMatch
    ELSE IF dc.trie # Null
       THEN Lookup(TrieDomains(dc.trie[1], "disposable"), domain,
                   config.enableSubdomainChecking)
    ELSE Lookup(dc.disposable, domain, config.enableSubdomainChecking)

\* performEmailCheck steps 3 to 5, up to the await: checkAllowlist and
\* checkBlacklist are answered by this.domainChecker and
\* checkDisposableDomain is called on the same object.
StartLookup(domain) ==
    /\ IF lookup = Null THEN TRUE ELSE ~lookup[1].awaited
    /\ lookup' = Some([domain |-> domain,
                       checker |-> domainChecker,
                       awaited |-> TRUE,
                       isAllowed |-> domain \in domainChecker.allowlist,
                       blacklist |-> Lookup(domainChecker.blacklist, domain,
                                            config.enableSubdomainChecking),
                       disposable |-> NoMatch,
                       seen |-> {ListsOf(domainChecker), LoadedLists}])
    /\ UNCHANGED <<domainChecker, upc, updates>>
    /\ UNCHANGED <<allowlistSet, blacklistSet, disposableDomainsSet,
                   domainTrie, bloomFilter>>
    /\ UNCHANGED notUpdate

\* performEmailCheck after await checkDisposableDomain(domain).
FinishLookup ==
    /\ IF lookup = Null THEN FALSE ELSE lookup[1].awaited
    /\ lookup' = Some([lookup[1] EXCEPT
                         !.awaited = FALSE,
                         !.disposable = CheckerLookup(lookup[1].checker,
                                                      lookup[1].domain)])
    /\ UNCHANGED <<domainChecker, upc, updates>>
    /\ UNCHANGED <<allowlistSet, blacklistSet, disposableDomainsSet,
                   domainTrie, bloomFilter>>
    /\ UNCHANGED notUpdate

NextUpdate ==
    \/ ForceUpdate
    \/ \E lists \in ListChoices : LoadAllData(lists)
    \/ LoadRejects
    \/ RebuildIndex
    \/ UpdateComponents
    \/ \E d \in IndexDomains : StartLookup(d)
    \/ FinishLookup

ParkedUpdate ==
    /\ domainChecker = [disposable |-> {}, allowlist |-> {}, blacklist |-> {},
                        trie |-> Null, bloom |-> Null]
    /\ upc = "idle"
    /\ updates = 0
    /\ lookup = Null

(***************************************************************************)
(*                 DisposableEmailChecker.ensureInitialized                *)
(***************************************************************************)
\* What the initialization and the public calls leave alone.
notInit == <<gateVars, smtpVars, cacheVars, checkerVars, dnsVars, batchVars,
             indexVars, mxBatchVars, updateVars>>

\* The public calls made on the checker.
MaxCallers == 3
Callers == 1..MaxCallers

\* The public methods that begin with await this.ensureInitialized().
CallKinds == {"checkEmail", "checkEmailsBatch", "validateDomain"}

\* The state after the constructor: initialized = false and no
\* initializationPromise.
InitInit ==
    /\ initialized = FALSE
    /\ initializationPromise = "none"
    /\ initStarts = 0
    /\ calls = [c \in Callers |-> [kind |-> "checkEmail", pos |-> "notCalled"]]

\* Mutant of StartsInitialize: the promise of a running initialization is
\* not looked at.
StartsInitialize_Unguarded == TRUE

\* ensureInitialized: if (!this.initializationPromise).
StartsInitialize == initializationPromise = "none"

\* A public method is called: ensureInitialized() runs up to its return or
\* its await. The first call that finds no promise calls initialize(), which
\* runs up to the await of the loads.
Call(c, kind) ==
    /\ calls[c].pos = "notCalled"
    /\ IF initialized
          THEN /\ calls' = [calls EXCEPT ![c] = [kind |-> kind, pos |-> "resuming"]]
               /\ UNCHANGED <<initializationPromise, initStarts>>
          ELSE /\ calls' = [calls EXCEPT ![c] = [kind |-> kind, pos |-> "awaiting"]]
               /\ IF StartsInitialize
                     THEN /\ initializationPromise' = "loading"
                          /\ initStarts' = initStarts + 1
                     ELSE UNCHANGED <<initializationPromise, initStarts>>
    /\ UNCHANGED initialized
    /\ UNCHANGED notInit

\* initialize() after await loadAllData(): buildIndex() is called and awaited.
InitializeLoaded ==
    /\ initializationPromise = "loading"
    /\ initializationPromise' = "building"
    /\ UNCHANGED <<initialized, initStarts, calls>>
    /\ UNCHANGED notInit

\* initialize() after await buildIndex(): updateComponents() and
\* this.initialized = true; the promise is fulfilled.
InitializeCompletes ==
    /\ initializationPromise = "building"
    /\ initialized' = TRUE
    /\ initializationPromise' = "fulfilled"
    /\ UNCHANGED <<initStarts, calls>>
    /\ UNCHANGED notInit

\* initialize(): a load or the build throws; the catch rethrows and the
\* promise is rejected.
InitializeFails ==
    /\ initializationPromise \in {"loading", "building"}
    /\ initializationPromise' = "rejected"
    /\ UNCHANGED <<initialized, initStarts, calls>>
    /\ UNCHANGED notInit

\* The caller after await this.ensureInitialized(): it goes on into its
\* pipeline, or the call rejects with the error of initialize().
Proceed(c) ==
    /\ \/ /\ calls[c].pos = "resuming"
          /\ calls' = [calls EXCEPT ![c].pos = "pipeline"]
       \/ /\ calls[c].pos = "awaiting"
          /\ initializationPromise = "fulfilled"
          /\ calls' = [calls EXCEPT ![c].pos = "pipeline"]
       \/ /\ calls[c].pos = "awaiting"
          /\ initializationPromise = "rejected"
          /\ calls' = [calls EXCEPT ![c].pos = "rejected"]
    /\ UNCHANGED <<initialized, initializationPromise, initStarts>>
    /\ UNCHANGED notInit

\* The call returns the result of its pipeline.
Returns(c) ==
    /\ calls[c].pos = "pipeline"
    /\ calls' = [calls EXCEPT ![c].pos = "returned"]
    /\ UNCHANGED <<initialized, initializationPromise, initStarts>>
    /\ UNCHANGED notInit

NextInit ==
    \/ \E c \in Callers, kind \in CallKinds : Call(c, kind)
    \/ InitializeLoaded
    \/ InitializeCompletes
    \/ InitializeFails
    \/ \E c \in Callers : Proceed(c)
    \/ \E c \in Callers : Returns(c)

ParkedInit ==
    /\ initialized = TRUE
    /\ initializationPromise = "fulfilled"
    /\ initStarts = 1
    /\ calls = <<>>

ParkedLife == ParkedUpdate /\ ParkedInit

(***************************************************************************)
(*                            Specifications                               *)
(***************************************************************************)
vars == <<gateVars, smtpVars, cacheVars, checkerVars, dnsVars, batchVars,
          indexVars, mxBatchVars, lifeVars>>

InitOfGate ==
    ParkedLife /\ InitGate /\ ParkedSmtp /\ ParkedCache /\ ParkedChecker /\ ParkedDns /\ ParkedBatch /\ ParkedIndex
        /\ ParkedMxBatch
SpecGate == InitOfGate /\ [][NextGate]_vars

InitOfSmtp ==
    ParkedLife /\ InitSmtp /\ ParkedGate /\ ParkedCache /\ ParkedChecker /\ ParkedDns /\ ParkedBatch /\ ParkedIndex
        /\ ParkedMxBatch
SpecSmtp == InitOfSmtp /\ [][NextSmtp]_vars

\* The validator with a timer that fires: setTimeout runs its callback once
\* the delay has passed, unless the timer was cleared first.
SpecSmtpTimed == InitOfSmtp /\ [][NextSmtp]_vars /\ WF_vars(OnTimeout)

InitOfCache ==
    ParkedLife /\ InitCache /\ ParkedGate /\ ParkedSmtp /\ ParkedChecker /\ ParkedDns /\ ParkedBatch /\ ParkedIndex
        /\ ParkedMxBatch
SpecCache == InitOfCache /\ [][NextCache]_vars

InitOfChecker ==
    ParkedLife /\ InitChecker /\ ParkedGate /\ ParkedSmtp /\ ParkedCache /\ ParkedDns /\ ParkedBatch /\ ParkedIndex
        /\ ParkedMxBatch
SpecChecker == InitOfChecker /\ [][NextChecker]_vars

InitOfDns ==
    ParkedLife /\ InitDns /\ ParkedGate /\ ParkedSmtp /\ ParkedCache /\ ParkedChecker /\ ParkedBatch /\ ParkedIndex
        /\ ParkedMxBatch
SpecDns == InitOfDns /\ [][NextDns]_vars

InitOfBatch ==
    ParkedLife /\ InitBatch /\ ParkedGate /\ ParkedSmtp /\ ParkedCache /\ ParkedDns /\ ParkedIndex
        /\ ParkedMxBatch
SpecBatch == InitOfBatch /\ [][NextBatch]_vars

InitOfIndex ==
    ParkedLife /\ InitIndex /\ ParkedGate /\ ParkedSmtp /\ ParkedCache /\ ParkedDns /\ ParkedBatch
        /\ ParkedMxBatch
SpecIndex == InitOfIndex /\ [][NextIndex]_vars

InitOfMxBatch ==
    ParkedLife /\ InitMxBatch /\ ParkedQueue /\ ParkedDnsCall /\ ParkedSmtp /\ ParkedCache
        /\ ParkedChecker /\ ParkedBatch /\ ParkedIndex
SpecMxBatch == InitOfMxBatch /\ [][NextMxBatch]_vars

InitOfUpdate ==
    InitUpdate /\ ParkedInit /\ ParkedGate /\ ParkedSmtp /\ ParkedCache
        /\ ParkedDns /\ ParkedBatch /\ ParkedMxBatch
SpecUpdate == InitOfUpdate /\ [][NextUpdate]_vars

InitOfInit ==
    InitInit /\ ParkedUpdate /\ ParkedGate /\ ParkedSmtp /\ ParkedCache
        /\ ParkedChecker /\ ParkedDns /\ ParkedBatch /\ ParkedIndex
        /\ ParkedMxBatch
SpecInit == InitOfInit /\ [][NextInit]_vars

(***************************************************************************)
(*                               Claims                                    *)
(***************************************************************************)
\* C1: the number of operations executing at the same time never exceeds
\* concurrency, counting the directly admitted operations and the ones
\* started from requestQueue.
C1_ExecutingNeverExceedsConcurrency ==
    Cardinality({o \in Ops : Executing(o)}) <= concurrency

\* C2: every submitted operation is eventually started and completed without
\* further submissions: whenever nothing is executing, settling or scheduled,
\* no operation is left waiting in requestQueue.
C2_NoOperationStranded ==
    (\A o \in Ops : opState[o] \in {"unsubmitted", "queued", "done"})
        => requestQueue = <<>>

\* C3: admission is strict FIFO: an operation submitted later (a larger id)
\* has never started while an operation submitted earlier is still waiting
\* in requestQueue.
C3_FifoAdmission ==
    \A o1 \in Ops, o2 \in Ops :
        (o1 < o2 /\ opState[o1] = "queued") => ~Started(o2)

\* The last attempt received exactly the replies q.
LastReplies(q) == vpc = "done" /\ replies = q

\* C4: once a server has replied 220, 250, 250, any code to RCPT TO and any
\* code to QUIT, the attempt has ended in SUCCESS, and validateEmail returns
\* isValid = true, mxRecord = that server and responseCode = the code of the
\* last reply received.
C4_HandshakeSuccess ==
    (Len(replies) = 5 /\ replies[1] = 220 /\ replies[2] = 250 /\ replies[3] = 250)
        => /\ Len(outcomes) = Len(attempted)
           /\ outcomes[Len(outcomes)] = "SUCCESS"
           /\ vpc = "done" =>
                /\ result.isValid
                /\ result.mxRecord = Some(servers[idx])
                /\ result.responseCode = Some(replies[5])

C4_Witness ==
    /\ LastReplies(<<220, 250, 250, 250, 221>>)
    /\ result.responseCode = Some(221)
    /\ result.mxRecord = Some("mx2")

\* C5: in the result of validateEmail, isMailboxValid is true if and only if
\* the handshake completed and the reply to RCPT TO (the fourth reply) was 250.
C5_MailboxValidIffRcpt250 ==
    vpc = "done" =>
        (result.isMailboxValid <=>
            (result.isValid /\ Len(replies) >= 4 /\ replies[4] = 250))

\* The only candidate server answered 220 and then rejected HELO.
HeloRejected ==
    /\ vpc = "done"
    /\ Len(servers) = 1
    /\ Len(replies) = 2 /\ replies[1] = 220 /\ replies[2] # 250

HasMessage(list, text) == \E i \in 1..Len(list) : list[i].text = text

\* C6 (as claimed): when the only candidate server answers 220 and then
\* rejects HELO, validateEmail returns isValid = false, isMailboxValid = false
\* and an errors list containing a "HELO failed" message.
C6_HeloFailedInErrors ==
    HeloRejected =>
        /\ ~result.isValid
        /\ ~result.isMailboxValid
        /\ HasMessage(result.errors, "HELO failed")

\* C6 (amended): when the only candidate server answers 220 and then rejects
\* HELO, validateEmail returns isValid = false, isMailboxValid = false, an
\* empty errors list and a warnings list containing a "HELO failed" message
\* that quotes the reply.
C6_HeloFailedInWarnings ==
    HeloRejected =>
        /\ ~result.isValid
        /\ ~result.isMailboxValid
        /\ result.errors = <<>>
        /\ result.warnings = <<Quoting("HELO failed", replies[2])>>
        /\ outcomes = <<"FAIL">>

C6_Witness == HeloRejected /\ replies = <<220, 550>>

Count(q, x) == Cardinality({i \in 1..Len(q) : q[i] = x})

\* C7: the candidate servers are tried one at a time in list order; nothing
\* is attempted after a SUCCESS; after a FAIL the next candidate is tried;
\* a valid result comes from a SUCCESS; and when every attempt ended in FAIL
\* the result has isValid = false, isMailboxValid = false and one warning
\* per failed server.
C7_SequentialFallback ==
    /\ attempted = SubSeq(servers, 1, Len(attempted))
    /\ Len(attempted) - Len(outcomes) \in {0, 1}
    /\ \A i \in 1..Len(outcomes) : (i < Len(attempted)) => outcomes[i] # "SUCCESS"
    /\ vpc = "done" /\ outcomes # <<>> =>
          /\ Len(outcomes) = Len(attempted)
          /\ result.isValid <=> outcomes[Len(outcomes)] = "SUCCESS"
          /\ outcomes[Len(outcomes)] = "FAIL" => Len(attempted) = Len(servers)
          /\ Len(result.warnings) = Count(outcomes, "FAIL")
          /\ Count(outcomes, "FAIL") = Len(outcomes) =>
                /\ ~result.isValid
                /\ ~result.isMailboxValid
                /\ Len(result.warnings) = Len(servers)

C7_Witness ==
    /\ vpc = "done"
    /\ Len(servers) = 3
    /\ outcomes = <<"FAIL", "SUCCESS">>
    /\ Len(result.warnings) = 1

\* C8: for any mxRecords list supplied, a server is never attempted while
\* another supplied server with a strictly lower priority number has not yet
\* been attempted.
C8_AscendingPriorityOrder ==
    mxRecords # Null =>
        \A i \in 1..Len(attempted) : \A j \in 1..Len(mxRecords[1]) :
            mxRecords[1][j].priority < PriorityOf(attempted[i])
                => \E k \in 1..(i - 1) : attempted[k] = mxRecords[1][j].exchange


\* C9: a read at time now of an entry stored at time t with time-to-live ttl
\* returns the stored value if now - t <= ttl and absent if now - t > ttl, and
\* the read path and the periodic sweep agree on which entries are stale,
\* the boundary now - t = ttl included.
C9_ReadAndSweepAgreeOnStale ==
    /\ lastGet.had =>
          lastGet.returned = (IF lastGet.age <= lastGet.ttl THEN lastGet.stored ELSE Null)
    /\ \A i \in 1..Len(dnsCache) :
          ~FreshOnRead(dnsCache[i], now) <=> StaleOnSweep(dnsCache[i], now)

\* The stages performEmailCheck runs after the allowlist.
LaterStages == {"blacklist", "disposable", "pattern", "dns", "smtp"}

\* C10: when the parsed domain of a well-formed email is on the allowlist
\* (whether or not it is also blacklisted or disposable), the result
\* performEmailCheck computes has isAllowed = true, confidence = 100,
\* matchType = exact, isDisposable = false and isBlacklisted = false, and the
\* call never reaches nor runs the blacklist, disposable, pattern, DNS or SMTP
\* stage.
C10_AllowlistShortCircuits ==
    /\ (cpc \in {"store", "idle"} /\ "format" \in stagesRun /\ cres.isValid
          /\ atCall.allowlisted)
          => /\ cres.isAllowed
             /\ cres.confidence = 100
             /\ cres.matchType = "exact"
             /\ ~cres.isDisposable
             /\ ~cres.isBlacklisted
             /\ cres.dnsValidation = Null
             /\ cres.smtpValidation = Null
             /\ stagesRun \cap LaterStages = {}
             /\ (cpc = "idle" /\ "cache" \notin failures => returned = Some(cres))
    /\ (cpc \in {"disposable", "dns", "smtp"} => ~atCall.allowlisted)

\* A check of an address whose domain is on all three lists, with the pattern,
\* DNS and SMTP stages enabled, has returned its computed result.
C10_Witness ==
    /\ cpc = "idle"
    /\ "allowlist" \in stagesRun
    /\ returned = Some(cres)
    /\ cres.isAllowed
    /\ cres.domain \in (allowlistSet \cap blacklistSet) \cap disposableDomainsSet
    /\ config.patternMatching
    /\ config.checkMxRecord
    /\ config.checkSmtpDeliverability

\* C11: a checkEmail call that began after addToAllowlist(d) returned, for a
\* well-formed address at domain d, returns isAllowed = true, even when the
\* address was checked and cached before the call to addToAllowlist.
C11_AllowedAfterAddToAllowlist ==
    (cpc = "idle" /\ returned # Null /\ atCall.added
        /\ QuickPattern(cur) /\ ValidateEmailFormat(cur) = Null)
       => returned[1].isAllowed

\* The warnings of a result, as a set.
WarningsOf(r) == {r.warnings[i] : i \in 1..Len(r.warnings)}

C13_ExhaustedRetriesReturnError ==
    /\ dpc = "done" => vdReturned # Null
    /\ (dpc = "done" /\ \A i \in 1..Len(attempts) : attempts[i] = "failed")
          => /\ ~vdReturned[1].hasMx
             /\ vdReturned[1].mxRecords = <<>>
             /\ vdReturned[1].errors # <<>>
             /\ Len(attempts) = dnsConfig.retries
             /\ activeRequests = 0

\* A call whose two attempts both failed has returned.
C13_Witness ==
    /\ dpc = "done"
    /\ attempts = <<"failed", "failed">>
    /\ vdReturned # Null
    /\ vdReturned[1].errors # <<>>

\* The format faults of the contract: the local@domain shape, the single "@",
\* the length limits and the grammar.
Malformed(e) ==
    \/ e.atCount # 1 \/ e.localLen = 0 \/ e.domainLen = 0 \/ Len(e.domain) < 2
    \/ EmailLength(e) > 254 \/ e.localLen > 64 \/ e.domainLen > 253
    \/ ~e.grammar

\* C14: a checkEmail call for a malformed email returns isValid = false with
\* at least one error, isDisposable, isAllowed and isBlacklisted false and
\* confidence 0, and runs no list lookup, pattern, DNS or SMTP stage.
C14_MalformedIsRejectedEarly ==
    /\ (cpc = "idle" /\ returned # Null /\ Malformed(cur))
          => /\ ~returned[1].isValid
             /\ returned[1].errors # <<>>
             /\ ~returned[1].isDisposable
             /\ ~returned[1].isAllowed
             /\ ~returned[1].isBlacklisted
             /\ returned[1].confidence = 0
             /\ returned[1].dnsValidation = Null
             /\ returned[1].smtpValidation = Null
             /\ stagesRun \subseteq {"format"}
    /\ (cpc \notin {"idle", "cacheGet", "perform", "store"} => ~Malformed(cur))

\* A call for an email with too long a local part, at a domain on every
\* list, has run validateEmailFormat and returned its result.
C14_Witness ==
    /\ cpc = "idle"
    /\ returned = Some(cres)
    /\ cur.localLen > 64
    /\ stagesRun = {"format"}
    /\ cur.domain \in (allowlistSet \cap blacklistSet) \cap disposableDomainsSet
    /\ config.checkMxRecord /\ config.checkSmtpDeliverability

\* Two inputs that differ at most in letter case and surrounding white space.
EqualAfterLowerCaseAndTrim(e1, e2) ==
    /\ e1.domain = e2.domain /\ e1.domainLen = e2.domainLen
    /\ e1.localLen = e2.localLen /\ e1.atCount = e2.atCount
    /\ e1.grammar = e2.grammar

C16_CacheHitRunsNoStage ==
    (atCall.stored /\ "cache" \notin failures) =>
        /\ cpc \in {"cacheGet", "idle"}
        /\ stagesRun = {}
        /\ dnsResult = Null /\ smtpArg = Null
        /\ resultCache[cur] # Null
        /\ cpc = "idle" => returned = resultCache[cur]

\* A first call computed a disposable classification with DNS and SMTP
\* probes and stored it; the second call for the same email got it back.
C16_Witness ==
    /\ atCall.stored
    /\ cpc = "idle"
    /\ checks = 2
    /\ failures = {}
    /\ config.checkMxRecord /\ config.checkSmtpDeliverability
    /\ returned # Null
    /\ returned[1].isDisposable
    /\ returned[1].dnsValidation # Null

\* C17: the list checkEmailsBatch returns has the length of its input, its
\* i-th element is a result for the lower-cased, trimmed i-th input, and
\* inputs with the same normalized form get equal results.
C17_BatchKeepsInputOrder ==
    bpc = "returned" =>
        /\ results # Null
        /\ Len(results[1]) = Len(emails)
        /\ \A i \in 1..Len(emails) :
              /\ results[1][i] # Null
              /\ results[1][i][1].email.form = "plain"
              /\ EqualAfterLowerCaseAndTrim(results[1][i][1].email, emails[i])
        /\ \A i, j \in 1..Len(emails) :
              EqualAfterLowerCaseAndTrim(emails[i], emails[j])
                 => results[1][i] = results[1][j]

\* The long batch, which repeats an email in another spelling, has
\* returned: the repeated email was served from the cache, the others were
\* computed, and a checkEmail call resolved before one that started earlier.
C17_Witness ==
    /\ bpc = "returned"
    /\ emails = LongBatch
    /\ overtaken
    /\ Normalize(emails[Len(emails)]) \notin Range(uncachedEmails)
    /\ Len(uncachedEmails) = ChunkFloor
    /\ results[1][1][1].isDisposable
    /\ results[1][Len(emails)] = resultMap[Normalize(emails[Len(emails)])]

\* C18: once the filter is built, the membership test is positive for every
\* domain of the disposable set and of the blacklist set.
C18_BloomHasNoFalseNegatives ==
    (ipc = "ready" /\ bloomFilter # Null) =>
        /\ \A d \in disposableDomainsSet \cup blacklistSet :
              BloomContains(bloomFilter[1], d)
        /\ (/\ probe # Null
            /\ probe.kind = "bloom"
            /\ probe.domain \in disposableDomainsSet \cup blacklistSet)
              => probe.answer

\* The filter was built from a disposable domain and a blacklisted one, the
\* test of the blacklisted domain was positive, and the filter is not full:
\* it reports some other domain absent.
C18_Witness ==
    /\ ipc = "ready" /\ bloomFilter # Null
    /\ disposableDomainsSet = {Listed}
    /\ blacklistSet = {Unrelated}
    /\ probe # Null /\ probe.kind = "bloom"
    /\ probe.domain = Unrelated /\ probe.answer
    /\ ~BloomContains(bloomFilter[1], SubOfListed)

\* Whether domain lies under a domain of set without being in it.
ProperSubdomain(set, domain) == domain \notin set /\ SuffixListed(set, domain)

\* C19: with the trie and the hybrid strategy, the lookup of a proper
\* subdomain of an inserted disposable domain answers matchType subdomain
\* with a confidence below 100.
C19_SubdomainMatchesUnderTrieAndHybrid ==
    (/\ ipc = "ready"
     /\ indexingStrategy \in {"trie", "hybrid"}
     /\ probe # Null
     /\ probe.kind = "lookup"
     /\ ProperSubdomain(disposableDomainsSet, probe.domain))
        => /\ probe.answer.isMatch
           /\ probe.answer.matchType = "subdomain"
           /\ probe.answer.confidence < 100

\* C20: a second validateEmail for the same email, made after the first has
\* returned, opens no connection and returns what the first returned.
C20_SecondValidationUsesTheCache ==
    repeats = 1 =>
        /\ attempted = <<>>
        /\ ~socketOpen
        /\ vpc = "done" => Some(result) = firstResult

\* C21: a second full validation of a domain, made after the first has
\* returned, makes no MX resolution attempt and returns what the first
\* returned.
C21_RepeatedValidationUsesTheCache ==
    dnsRepeats = 1 =>
        /\ attempts = <<>>
        /\ dpc \notin {"resolving", "backoff"}
        /\ vdReturned # Null => vdReturned = vdFirst

\* The DNS stage of the call ran and found MX records: it neither threw nor
\* left the warning of a domain without MX records.
DnsFoundMx ==
    /\ "dns" \in stagesRun
    /\ "dns thrown" \notin failures
    /\ \A i \in 1..Len(cres.warnings) :
          cres.warnings[i] # "No MX record found for domain"

\* C22: when the DNS stage found MX records, the SMTP stage is handed an MX
\* list (the one of the DNS result, when the full validation ran).
C22_SmtpIsHandedTheMxList ==
    ("smtp" \in stagesRun /\ DnsFoundMx) =>
        /\ smtpArg # Null
        /\ dnsResult # Null => smtpArg = Some(dnsResult[1].mxRecords)

\* C23: an instance built with an invalid configuration (here retries
\* below 1) does not exist, so no validation ever runs on one.
C23_InvalidConfigurationIsRejected ==
    dpc # "idle" => dnsConfig.retries >= 1

\* The operations that have started and whose finally block, if they have
\* one, has not run yet: each should hold one slot.
InProgress == {o \in Ops : opState[o] \in {"direct", "directSettled", "viaQueue"}}

\* C24: activeRequests is never negative, never above concurrency, and
\* counts exactly the operations in progress: each took one slot before it
\* started and gives it back once, so the counter is 0 when none runs.
C24_EveryOperationHoldsOneSlot ==
    /\ activeRequests >= 0
    /\ activeRequests <= concurrency
    /\ activeRequests = Cardinality(InProgress)

\* The commands of one attempt, in the order of the dialogue.
Dialogue == <<"HELO", "MAIL FROM", "RCPT TO", "QUIT">>

\* The reply code that lets the i-th command go out (QUIT follows any reply).
ExpectedReply(i) == IF i = 1 THEN 220 ELSE 250

\* C25: within one server attempt the commands sent are a prefix of HELO,
\* MAIL FROM, RCPT TO, QUIT, the i-th sent only after the i-th reply and,
\* for the first three, only when that reply had the expected code; after
\* an unexpected code among the first three replies nothing more is sent
\* or read and the socket is destroyed.
C25_CommandsFollowExpectedReplies ==
    /\ Len(sent) <= Len(Dialogue)
    /\ sent = SubSeq(Dialogue, 1, Len(sent))
    /\ Len(sent) <= Len(replies)
    /\ \A i \in 1..Len(sent) : i < Len(Dialogue) => replies[i] = ExpectedReply(i)
    /\ \A i \in 1..Len(replies) :
          (i < Len(Dialogue) /\ replies[i] # ExpectedReply(i)) =>
              /\ Len(replies) = i
              /\ Len(sent) = i - 1
              /\ ~socketOpen
              /\ ~listening

C25_Witness ==
    /\ replies = <<220, 250, 550>>
    /\ sent = <<"HELO", "MAIL FROM">>
    /\ ~socketOpen
    /\ connResult.settled = "resolved"

\* The error message that names a cause.
CauseMessage(event) ==
    IF event = "close" THEN "Connection closed unexpectedly"
    ELSE IF event = "error" THEN "Connection failed"
    ELSE "Connection timeout"

\* The attempt in progress was ended by a peer close, a socket error or the
\* timer before QUIT was sent (an attempt whose connect call threw never
\* entered the dialogue).
EndedBeforeQuit ==
    /\ lastEvent \in {"close", "error", "timeout"}
    /\ Len(sent) < Len(Dialogue)
    /\ connResult.settled # "rejected"

\* C26: a peer close, a socket error or a timeout before QUIT is sent ends
\* the attempt with FAIL: the attempt's result has isValid = false and an
\* error naming the cause, its outcome is and stays FAIL, and a call that
\* ends with this attempt is not valid.
C26_BrokenConnectionFails ==
    EndedBeforeQuit =>
        /\ connResult.settled = "resolved"
        /\ ~connResult.isValid
        /\ connResult.error = Some(Plain(CauseMessage(lastEvent)))
        /\ Len(outcomes) = Len(attempted)
        /\ outcomes[Len(outcomes)] = "FAIL"
        /\ ~socketOpen /\ ~listening /\ ~timerArmed
        /\ vpc = "done" => ~result.isValid

C26_Witness ==
    /\ EndedBeforeQuit
    /\ lastEvent = "close"
    /\ sent = <<"HELO", "MAIL FROM", "RCPT TO">>
    /\ vpc = "done"

\* C27: whatever the order of the data, error, close and timeout events, a
\* settled attempt is never settled again, an attempt has at most one
\* outcome, and with a timer that fires every attempt that is started
\* settles, also when the peer closes after QUIT without a reply.
C27_ExactlyOneOutcome ==
    /\ [](Len(outcomes) <= Len(attempted))
    /\ [][(/\ vpc = "attempt" /\ vpc' = "attempt" /\ idx' = idx
            /\ connResult.settled # "pending") => connResult' = connResult]_vars
    /\ [](vpc = "attempt" => <>(connResult.settled # "pending"))

\* The peer closed after QUIT without a reply and the timer ended the
\* attempt.
C27_Witness ==
    /\ lastEvent = "timeout"
    /\ sent = Dialogue
    /\ Len(replies) = Len(Dialogue)
    /\ connResult = ConnectionFailure("Connection timeout")
    /\ Len(outcomes) = Len(attempted)

\* C28: a validateEmail call for an email with a local part and a domain
\* attempts at least one server, and the bare domain alone when mxRecords
\* is not supplied or is an empty list.
C28_AtLeastOneServerAttempted ==
    (vpc = "done" /\ email.localPart # "" /\ email.domain # "") =>
        /\ attempted # <<>>
        /\ (mxRecords = Null \/ mxRecords = Some(<<>>)) =>
              attempted = <<email.domain>>

\* The wait the claim gives between failed attempt n and attempt n + 1.
ClaimedWait(n) ==
    IF n = 1 THEN 1000 ELSE IF n = 2 THEN 2000 ELSE IF n = 3 THEN 4000 ELSE 5000

\* The failed attempts that were not the last one allowed.
FailedBeforeLast ==
    {n \in 1..Len(attempts) : attempts[n] = "failed" /\ n < dnsConfig.retries}

\* C29: resolveMxWithRetry makes at most retries attempts, makes none after
\* a success, waits min(1000 * 2^(n-1), 5000) ms after failed attempt n
\* when another attempt follows, and does not wait after the last attempt.
C29_BoundedAttemptsWithBackoff ==
    /\ Len(attempts) <= dnsConfig.retries
    /\ \A n \in 1..(Len(attempts) - 1) : attempts[n] = "failed"
    /\ Len(delays) = Cardinality(FailedBeforeLast)
    /\ \A n \in 1..Len(delays) : delays[n] = ClaimedWait(n)
    /\ dpc = "backoff" => Len(delays) = Len(attempts)
    /\ (attempts # <<>> /\ Len(attempts) = dnsConfig.retries) =>
          Len(delays) = Len(attempts) - 1

\* Five attempts failed: the waits doubled up to the cap.
C29_Witness ==
    /\ dnsConfig.retries = 5
    /\ attempts = <<"failed", "failed", "failed", "failed", "failed">>
    /\ delays = <<1000, 2000, 4000, 5000>>
    /\ dpc = "done"

\* C30: two MX queries for the same domain are never in flight at the same
\* time.
C30_OneQueryPerDomainInFlight ==
    \A i, j \in DOMAIN mxCalls :
        (/\ i # j
         /\ uncachedDomains[i] = uncachedDomains[j]
         /\ mxCalls[i].pc = "resolving")
            => mxCalls[j].pc # "resolving"

HasText(list, text) == \E i \in 1..Len(list) : list[i] = text

\* Every MX query of the call was answered with "no MX record": the answer
\* was an empty list, or the query was rejected with ENODATA.
DomainHasNoMx ==
    /\ attempts # <<>>
    /\ \/ attempts[Len(attempts)] = "resolved" /\ ~vdResult.hasMx
       \/ /\ \A i \in 1..Len(attempts) : attempts[i] = "failed"
          /\ lastError = Some("queryMx ENODATA")

\* C31: validateDomain for a domain without MX records returns a warning
\* for the absent record and no error, and the errors it returns never come
\* from a mere absence of records.
C31_AbsenceIsAWarning ==
    (dpc = "done" /\ dnsConfig.retries >= 1) =>
        /\ DomainHasNoMx =>
              /\ vdReturned[1].errors = <<>>
              /\ HasText(vdReturned[1].warnings, "No MX records found")
        /\ vdReturned[1].errors # <<>> => lastError # Some("queryMx ENODATA")

\* C32: with checkSpfRecord (checkDmarcRecord) enabled, every validateDomain
\* call that has returned made the SPF (DMARC) lookup: its result has the
\* flag set or carries the warning of the absent record.
C32_RecordChecksAlwaysRun ==
    (dpc = "done" /\ dnsConfig.retries >= 1) =>
        /\ dnsConfig.checkSpfRecord =>
              \/ vdReturned[1].hasSpf
              \/ HasText(vdReturned[1].warnings, "No SPF record found")
        /\ dnsConfig.checkDmarcRecord =>
              \/ vdReturned[1].hasDmarc
              \/ HasText(vdReturned[1].warnings, "No DMARC record found")

\* The keys of a cache, and the entry stored under a key.
KeysOf(cache) == {cache[i].key : i \in 1..Len(cache)}
EntryOf(cache, key) == cache[PositionOf(cache, key)]

\* The step stores an entry under key: only setCachedResult adds or changes
\* an entry (the other operations delete).
Stores(key) ==
    /\ key \in KeysOf(dnsCache')
    /\ key \in KeysOf(dnsCache) => EntryOf(dnsCache', key) # EntryOf(dnsCache, key)

\* C33: the cache never holds more than cacheSize entries; a set of a key
\* already present evicts nothing, and a set of a new key evicts the first
\* entry in insertion order when the cache is full and nothing otherwise.
C33_EvictsOnlyForANewKey ==
    /\ [](Len(dnsCache) <= cacheSize)
    /\ [][\A key \in CacheKeys : Stores(key) =>
            KeysOf(dnsCache') =
               IF key \in KeysOf(dnsCache) THEN KeysOf(dnsCache)
               ELSE IF Len(dnsCache) >= cacheSize
                       THEN (KeysOf(dnsCache) \ {dnsCache[1].key}) \cup {key}
                       ELSE KeysOf(dnsCache) \cup {key}]_vars

\* An entry a read would no longer return.
Expired(e) == ~FreshOnRead(e, now)

\* C34: a set of a new key that evicts a live entry finds no expired entry
\* in the cache.
C34_ExpiredEvictedFirst ==
    [][\A key \in CacheKeys : (Stores(key) /\ key \notin KeysOf(dnsCache)) =>
         \A i \in 1..Len(dnsCache) :
            (/\ dnsCache[i].key \notin KeysOf(dnsCache')
             /\ ~Expired(dnsCache[i]))
                => \A j \in 1..Len(dnsCache) : ~Expired(dnsCache[j])]_vars

\* The entry checkMxRecord has just stored.
CheckedEntry == EntryOf(dnsCache, "simple-mx:a.com")

\* C35: checkMxRecord caches a negative answer (the resolution threw, or
\* returned an empty list) with ttl = cacheTtl / 2 and a positive answer
\* with ttl = cacheTtl.
C35_NegativeAnswersGetHalfTtl ==
    lastCheck # Null =>
        /\ lastCheck = Some("records") =>
              CheckedEntry.result = "true" /\ CheckedEntry.ttl = cacheTtl
        /\ lastCheck # Some("records") =>
              CheckedEntry.result = "false" /\ 2 * CheckedEntry.ttl = cacheTtl

\* The validateDomain calls of the batch that have started and not returned.
InFlight == {i \in DOMAIN mxCalls : mxCalls[i].pc \in {"resolving", "backoff"}}

\* C36: the calls in flight all belong to the chunk being awaited, every
\* call of an earlier chunk has returned and none of a later chunk has
\* started, so at most concurrency calls of the batch are in flight.
C36_ChunksRunOneAfterAnother ==
    /\ Cardinality(InFlight) <= concurrency
    /\ \A i \in DOMAIN mxCalls :
          /\ i \in InFlight => mpc = "chunk" /\ i \in MxChunk(chunkNo)
          /\ i > chunkNo * concurrency => mxCalls[i].pc = "unstarted"
          /\ (mpc = "chunk" /\ i <= (chunkNo - 1) * concurrency) =>
                mxCalls[i].pc = "returned"

\* The second chunk of a batch of three domains is in flight.
C36_Witness ==
    /\ concurrency = 2
    /\ Len(uncachedDomains) = 3
    /\ chunkNo = 2
    /\ InFlight = {3}

\* The call in flight (or just ended) ran the blacklist step for a
\* blacklisted domain.
BlacklistMatched ==
    /\ cpc \in {"store", "idle"}
    /\ "blacklist" \in stagesRun
    /\ CheckBlacklist(cres.domain).isMatch

\* C37: a blacklist match does not end the pipeline: the result has
\* isBlacklisted = true, the disposable lookup and the enabled DNS and SMTP
\* stages have run when the result is stored, and that result is the one
\* returned and cached.
C37_BlacklistDoesNotShortCircuit ==
    BlacklistMatched =>
        /\ cres.isBlacklisted
        /\ "disposable" \in stagesRun
        /\ config.checkMxRecord => "dns" \in stagesRun
        /\ config.checkSmtpDeliverability => "smtp" \in stagesRun
        /\ (cpc = "idle" /\ "cache" \notin failures) =>
              /\ returned = Some(cres)
              /\ config.enableCaching => resultCache[cur] = Some(cres)

C37_Witness ==
    /\ BlacklistMatched
    /\ cpc = "idle"
    /\ returned = Some(cres)
    /\ cres.isBlacklisted
    /\ cres.isDisposable
    /\ {"dns", "smtp"} \subseteq stagesRun
    /\ resultCache[cur] = Some(cres)

\* The positions of performEmailCheck from which a stage runs next.
StagePositions == {"perform", "disposable", "dns", "smtp"}

\* The confidences of the signals that fired in the call whose result is
\* about to be stored.
Signals ==
    {0}
    \cup (IF CheckBlacklist(cres.domain).isMatch
            THEN {CheckBlacklist(cres.domain).confidence} ELSE {})
    \cup (IF CheckDisposableDomain(cres.domain).isMatch
            THEN {CheckDisposableDomain(cres.domain).confidence} ELSE {})
    \cup (IF "pattern" \in stagesRun THEN {SuspiciousScore(cur)} ELSE {})
    \cup (IF "No MX record found for domain" \in WarningsOf(cres) THEN {60} ELSE {})
    \cup (IF cres.smtpValidation # Null /\ ~cres.smtpValidation[1].isDeliverable
            THEN {70} ELSE {})

Highest(S) == CHOOSE x \in S : \A y \in S : y <= x

\* C38: result.confidence stays within 0..100, no stage of
\* performEmailCheck lowers it, and the result about to be stored has the
\* highest confidence among the signals that fired.
C38_ConfidenceIsARunningMaximum ==
    /\ [](cres.confidence \in 0..100)
    /\ [][(cpc \in StagePositions) => (cres'.confidence >= cres.confidence)]_vars
    /\ [](cpc = "store" /\ "disposable" \in stagesRun =>
            cres.confidence = Highest(Signals))

\* A blacklisted subdomain whose pattern score is lower and whose mailbox
\* is not deliverable: the confidence stayed at the blacklist's.
C38_Witness ==
    /\ cpc = "store"
    /\ cres.domain = SubOfListed
    /\ cres.isBlacklisted
    /\ {"pattern", "dns", "smtp"} \subseteq stagesRun
    /\ cres.smtpValidation # Null /\ ~cres.smtpValidation[1].isDeliverable
    /\ cres.confidence = 90

\* The DomainChecker made of the given lists and of nothing else: the trie
\* and the filter of the configured strategy hold exactly these lists.
SnapshotOf(lists) ==
    [disposable |-> lists.disposable,
     allowlist |-> lists.allowlist,
     blacklist |-> lists.blacklist,
     trie |-> IF indexingStrategy \in {"trie", "hybrid"}
                 THEN Some({<<d, "disposable">> : d \in lists.disposable}
                           \cup {<<d, "allowed">> : d \in lists.allowlist}
                           \cup {<<d, "blacklisted">> : d \in lists.blacklist})
                 ELSE Null,
     bloom |-> IF indexingStrategy \in {"bloom", "hybrid"}
                  THEN Some(UNION {hashes[d] :
                                   d \in lists.disposable \cup lists.blacklist})
                  ELSE Null]

\* Every answer the lookup has so far is the one the lists give.
AnsweredFrom(l, lists) ==
    /\ l.isAllowed = (l.domain \in lists.allowlist)
    /\ l.blacklist = Lookup(lists.blacklist, l.domain,
                            config.enableSubdomainChecking)
    /\ ~l.awaited =>
          l.disposable = CheckerLookup(SnapshotOf(lists), l.domain)

\* C39: while forceUpdate runs, every lookup is answered from one whole set
\* of lists (the one in use when it began or one loaded since, with the trie
\* and the filter built from the same lists), and a lookup in flight goes on
\* to its answer on the object it began with.
C39_LookupsSeeOneSnapshot ==
    /\ [](\E lists \in ListChoices : domainChecker = SnapshotOf(lists))
    /\ [](lookup # Null =>
            \E lists \in lookup[1].seen :
                /\ lookup[1].checker = SnapshotOf(lists)
                /\ AnsweredFrom(lookup[1], lists))
    /\ [][(IF lookup = Null THEN FALSE ELSE lookup[1].awaited) =>
            /\ lookup' # Null
            /\ lookup'[1].domain = lookup[1].domain
            /\ lookup'[1].checker = lookup[1].checker
            /\ lookup'[1].blacklist = lookup[1].blacklist]_vars

\* A lookup that began before the update replaced the DomainChecker and was
\* answered, as disposable, after it: the lists in use no longer list the
\* domain.
C39_Witness ==
    /\ lookup # Null
    /\ ~lookup[1].awaited
    /\ lookup[1].disposable.isMatch
    /\ upc = "idle"
    /\ updates > 0
    /\ domainChecker # lookup[1].checker
    /\ ~CheckerLookup(domainChecker, lookup[1].domain).isMatch

\* The calls that have been made, and the ones that went past
\* ensureInitialized.
CallsMade == {c \in Callers : calls[c].pos # "notCalled"}
InPipeline == {c \in Callers : calls[c].pos \in {"pipeline", "returned"}}

\* C40: however many public calls are made on a fresh checker, initialize()
\* is started exactly once, and a call is in its pipeline only when
\* initialization has completed successfully.
C40_InitializedOnceBeforeAnyPipeline ==
    /\ CallsMade # {} => initStarts = 1
    /\ CallsMade = {} => initStarts = 0
    /\ InPipeline # {} => initialized /\ initializationPromise = "fulfilled"
    /\ initialized => initializationPromise = "fulfilled"

\* Calls of the three kinds have all entered their pipeline, after the one
\* initialization the first of them started.
C40_Witness ==
    /\ InPipeline = Callers
    /\ {calls[c].kind : c \in Callers} = CallKinds
    /\ initStarts = 1

=============================================================================
